---- MODULE Spec2Model ----
(***************************************************************************)
(* MyPinballStats: the combined / ifpa / matchplay GET handlers with the   *)
(* in-memory cache and rate limiter, and the Match Play opponent-history   *)
(* reconstruction (getRecentOpponents).                                    *)
(*                                                                         *)
(* Conventions.  A JavaScript value that may be null/undefined is a        *)
(* sequence of length 0 (absent) or 1 (present).  A JavaScript number is a *)
(* record [nan, n].  Query-string values and upstream numeric text are     *)
(* sequences of one-character strings, so that parseInt and Number are     *)
(* computed character by character.  Timestamps used by the opponent       *)
(* reconstruction are natural numbers standing for ISO-8601 strings in     *)
(* their lexicographic order, 0 standing for the empty string.             *)
(***************************************************************************)
EXTENDS Integers, Sequences, FiniteSets, TLC

VARIABLES
  now,         \* Date.now(), in milliseconds
  cacheStore,  \* InMemoryCache.cache : key -> [data, timestamp, ttl]
  rateLimits,  \* InMemoryCache.rateLimits : key -> [count, resetTime]
  rq,          \* per request: position in the handler and its request-scoped locals
  started,     \* number of requests received so far
  upstream,    \* Match Play API: what the tournament endpoints answer
  inv,         \* per invocation of getRecentOpponents: position and locals
  walk,        \* one walk of the games loop: the map, the event and game at hand
  call,        \* the last call of a method of the cache object, and what it returned
  admits,      \* per rate-limit key: the times of the calls isRateLimited let pass
  ft           \* one call of fetchJson: position in fetchWithTimeout and its locals

hvars == <<now, cacheStore, rateLimits, rq, started>>
ovars == <<upstream, inv>>
uvars == <<call, admits, ft>>
vars == <<now, cacheStore, rateLimits, rq, started, upstream, inv, walk, call, admits, ft>>

----------------------------------------------------------------------------
(* JavaScript values *)

None == <<>>
Some(v) == <<v>>
IsNone(o) == Len(o) = 0
IsSome(o) == Len(o) = 1
Val(o) == o[1]

Num(n) == [nan |-> FALSE, n |-> n]
NaNv == [nan |-> TRUE, n |-> 0]

\* isNaN(x) for a number x
isNaN(x) == x.nan

\* truthiness of a number: neither 0 nor NaN
TruthyNum(x) == ~x.nan /\ x.n /= 0

\* truthiness of "number | null"
TruthyId(o) == IsSome(o) /\ TruthyNum(Val(o))

\* truthiness of "string | null" (a query parameter): present and not empty
TruthyStr(o) == IsSome(o) /\ Len(Val(o)) > 0

DigitChars == <<"0", "1", "2", "3", "4", "5", "6", "7", "8", "9">>
IsDigit(c) == \E i \in 1..10 : DigitChars[i] = c
DigitVal(c) == (CHOOSE i \in 1..10 : DigitChars[i] = c) - 1
IsWs(c) == c = " "

RECURSIVE SkipWs(_)
SkipWs(s) == IF Len(s) > 0 /\ IsWs(Head(s)) THEN SkipWs(Tail(s)) ELSE s

RECURSIVE DropTrailingWs(_)
DropTrailingWs(s) ==
  IF Len(s) > 0 /\ IsWs(s[Len(s)]) THEN DropTrailingWs(SubSeq(s, 1, Len(s) - 1)) ELSE s

RECURSIVE DigitPrefix(_)
DigitPrefix(s) ==
  IF Len(s) > 0 /\ IsDigit(Head(s)) THEN <<Head(s)>> \o DigitPrefix(Tail(s)) ELSE <<>>

RECURSIVE DigitsValue(_, _)
DigitsValue(s, acc) ==
  IF Len(s) = 0 THEN acc ELSE DigitsValue(Tail(s), acc * 10 + DigitVal(Head(s)))

\* parseInt(s, 10): leading white space is skipped, one sign is accepted, the
\* longest run of digits that follows is read and whatever comes after it is
\* ignored; NaN when there is no digit to read.
parseInt(s) ==
  LET t == SkipWs(s)
      signed == Len(t) > 0 /\ Head(t) \in {"-", "+"}
      neg == Len(t) > 0 /\ Head(t) = "-"
      d == DigitPrefix(IF signed THEN Tail(t) ELSE t)
  IN IF Len(d) = 0 THEN NaNv
     ELSE Num(IF neg THEN 0 - DigitsValue(d, 0) ELSE DigitsValue(d, 0))

\* Number(v) for v a string or undefined: undefined is NaN, a blank string is 0,
\* an optionally signed run of digits is its value and anything else is NaN.
Number(o) ==
  IF IsNone(o) THEN NaNv
  ELSE LET t == DropTrailingWs(SkipWs(Val(o)))
           signed == Len(t) > 0 /\ Head(t) \in {"-", "+"}
           neg == Len(t) > 0 /\ Head(t) = "-"
           u == IF signed THEN Tail(t) ELSE t
       IN IF Len(t) = 0 THEN Num(0)
          ELSE IF Len(u) > 0 /\ Len(DigitPrefix(u)) = Len(u)
               THEN Num(IF neg THEN 0 - DigitsValue(u, 0) ELSE DigitsValue(u, 0))
               ELSE NaNv

\* `${n}` for a number, and `${id ?? 'none'}` for "number | null"
NumStr(x) == IF x.nan THEN "NaN" ELSE ToString(x.n)
IdStr(o) == IF IsNone(o) THEN "none" ELSE NumStr(Val(o))

----------------------------------------------------------------------------
(* The cache object and the fetch helper before anything has called them *)

NoCall == [method |-> "", key |-> "", returned |-> None]
IdleFetch ==
  [pc |-> "idle", retries |-> 0, attempt |-> 0, lastError |-> None, response |-> None,
   seen |-> <<>>, waits |-> <<>>, result |-> None]
UnitsIdle == call = NoCall /\ admits = <<>> /\ ft = IdleFetch

----------------------------------------------------------------------------
(* src/lib/cache.ts *)

FIFTEEN_MINUTES == 15 * 60 * 1000
MAX_REQUESTS == 10
WINDOW_MS == 60 * 1000

Has(f, k) == k \in DOMAIN f

\* a variant of CacheGet for which no entry ever expires
CacheGetStale(store, key, t) ==
  IF ~(key \in DOMAIN store) THEN [value |-> None, store |-> store]
  ELSE [value |-> Some(store[key].data), store |-> store]

\* a variant of CacheGet for which an entry as old as its ttl has expired
CacheGetEarly(store, key, t) ==
  IF ~(key \in DOMAIN store) THEN [value |-> None, store |-> store]
  ELSE IF t - store[key].timestamp >= store[key].ttl
       THEN [value |-> None,
             store |-> [k \in DOMAIN store \ {key} |-> store[k]]]
       ELSE [value |-> Some(store[key].data), store |-> store]

\* InMemoryCache.get: [value, store]; an entry found expired is deleted
CacheGet(store, key, t) ==
  IF ~Has(store, key) THEN [value |-> None, store |-> store]
  ELSE IF t - store[key].timestamp > store[key].ttl
       THEN [value |-> None,
             store |-> [k \in DOMAIN store \ {key} |-> store[k]]]
       ELSE [value |-> Some(store[key].data), store |-> store]

\* InMemoryCache.set
\* a variant of CacheSet that keeps the entry a key already has
CacheSetIfAbsent(store, key, data, ttlMs, t) ==
  IF key \in DOMAIN store THEN store
  ELSE (key :> [data |-> data, timestamp |-> t, ttl |-> ttlMs]) @@ store

CacheSet(store, key, data, ttlMs, t) ==
  (key :> [data |-> data, timestamp |-> t, ttl |-> ttlMs]) @@ store

\* InMemoryCache.delete
CacheDelete(store, key) == [k \in DOMAIN store \ {key} |-> store[k]]

\* InMemoryCache.cleanup: the entries, and the rate-limit windows, that are left
CacheCleanup(store, t) ==
  [k \in { k \in DOMAIN store : ~(t - store[k].timestamp > store[k].ttl) } |-> store[k]]
LimitsCleanup(limits, t) ==
  [k \in { k \in DOMAIN limits : ~(t > limits[k].resetTime) } |-> limits[k]]

\* InMemoryCache.clear
CacheClear(store) == <<>>

\* a variant of isRateLimited in which a rejected call pushes the window's end out
IsRateLimitedExtending(limits, key, maxRequests, windowMs, t) ==
  IF ~(key \in DOMAIN limits) \/ t > limits[key].resetTime
  THEN [limited |-> FALSE,
        limits |-> (key :> [count |-> 1, resetTime |-> t + windowMs]) @@ limits]
  ELSE IF limits[key].count >= maxRequests
       THEN [limited |-> TRUE,
             limits |-> [limits EXCEPT ![key].resetTime = t + windowMs]]
       ELSE [limited |-> FALSE,
             limits |-> [limits EXCEPT ![key].count = @ + 1]]

\* InMemoryCache.isRateLimited: [limited, limits]
IsRateLimited(limits, key, maxRequests, windowMs, t) ==
  IF ~Has(limits, key) \/ t > limits[key].resetTime
  THEN [limited |-> FALSE,
        limits |-> (key :> [count |-> 1, resetTime |-> t + windowMs]) @@ limits]
  ELSE IF limits[key].count >= maxRequests
       THEN [limited |-> TRUE, limits |-> limits]
       ELSE [limited |-> FALSE,
             limits |-> [limits EXCEPT ![key].count = @ + 1]]

----------------------------------------------------------------------------
(* Upstream providers as seen by the handlers.  A fetch either rejects or  *)
(* fulfils with one of a few payloads.                                     *)

Fulfilled(v) == [status |-> "fulfilled", value |-> Some(v), reason |-> ""]
Rejected(why) == [status |-> "rejected", value |-> None, reason |-> why]
NotIssued == [status |-> "none", value |-> None, reason |-> ""]

\* what getPlayerData(id) can fulfil with: {player, stats, stateRanking, eventsByYear}
IfpaPayloads ==
  { [player |-> [first_name |-> "Ann", last_name |-> "Lee",
                 city |-> Some("Oslo"), stateprov |-> None],
     stats |-> Some([current_rank |-> 7])],
    [player |-> [first_name |-> "Ann", last_name |-> "",
                 city |-> None, stateprov |-> None],
     stats |-> None] }

\* what getUserSummary(id) can fulfil with: {user, rating, userCounts}
MatchPlayPayloads ==
  { [user |-> [name |-> Some("Bo Berg"), location |-> Some("Bergen")],
     rating |-> Some([rating |-> 1500, rating_class |-> 2])],
    [user |-> [name |-> None, location |-> None],
     rating |-> None] }

\* what getRecentOpponents(id) can fulfil with
OpponentPayloads ==
  { <<>>,
    <<[name |-> "Cat", wins |-> 1, losses |-> 0, totalGames |-> 1,
       winRate |-> Some(<<1, 1>>), lastPlayed |-> 1]>> }

\* the message of the Error a provider call rejects with
UpstreamErrors == {"HTTP 500: upstream unavailable"}

\* the cross-link a profile carries (matchplay_events.id, user.ifpa_id):
\* absent, a numeric text, or text that is no number
LinkPool == {None, Some(<<"2">>), Some(<<"x">>)}

ProfileOutcomes ==
  {[ok |-> FALSE, link |-> None]} \cup {[ok |-> TRUE, link |-> l] : l \in LinkPool}

----------------------------------------------------------------------------
(* src/app/api/combined/me/route.ts : resolvePlayerIds *)

\* lines 18-19: rawId ? parseInt(rawId, 10) : null
InitialId(raw) == IF TruthyStr(raw) THEN Some(parseInt(Val(raw))) ELSE None

\* which branch of lines 22/34/45 is taken, hence which profile is fetched
ResolveBranch(rawIfpaId, rawMatchPlayId) ==
  LET ifpaId == InitialId(rawIfpaId)
      matchPlayId == InitialId(rawMatchPlayId)
  IN IF TruthyId(ifpaId) /\ ~TruthyId(matchPlayId) THEN "ifpaOnly"
     ELSE IF TruthyId(matchPlayId) /\ ~TruthyId(ifpaId) THEN "matchPlayOnly"
     ELSE IF TruthyId(ifpaId) /\ TruthyId(matchPlayId) THEN "both"
     ELSE "neither"

\* a variant of resolvePlayerIds that, finding no usable cross-link, takes the
\* supplied id for the other provider's as well
resolvePlayerIdsMirrored(rawIfpaId, rawMatchPlayId, outcome) ==
  LET ifpaId == InitialId(rawIfpaId)
      matchPlayId == InitialId(rawMatchPlayId)
      branch == ResolveBranch(rawIfpaId, rawMatchPlayId)
      linked == Number(outcome.link)
      usable == outcome.ok /\ TruthyNum(linked)
  IN [ifpaId |-> IF branch = "matchPlayOnly"
                 THEN (IF usable THEN Some(linked) ELSE matchPlayId) ELSE ifpaId,
      matchPlayId |-> IF branch = "ifpaOnly"
                      THEN (IF usable THEN Some(linked) ELSE ifpaId) ELSE matchPlayId,
      idMismatchWarning |->
        IF branch = "both" /\ usable /\ linked /= Val(matchPlayId)
        THEN Some([linked |-> NumStr(linked), entered |-> NumStr(Val(matchPlayId))])
        ELSE None]

\* the result of resolvePlayerIds, given how its one profile fetch ended
resolvePlayerIds(rawIfpaId, rawMatchPlayId, outcome) ==
  LET ifpaId == InitialId(rawIfpaId)
      matchPlayId == InitialId(rawMatchPlayId)
      branch == ResolveBranch(rawIfpaId, rawMatchPlayId)
      linked == Number(outcome.link)
      usable == outcome.ok /\ TruthyNum(linked)
  IN [ifpaId |-> IF branch = "matchPlayOnly" /\ usable THEN Some(linked) ELSE ifpaId,
      matchPlayId |-> IF branch = "ifpaOnly" /\ usable THEN Some(linked) ELSE matchPlayId,
      idMismatchWarning |->
        IF branch = "both" /\ usable /\ linked /= Val(matchPlayId)
        THEN Some([linked |-> NumStr(linked), entered |-> NumStr(Val(matchPlayId))])
        ELSE None]

----------------------------------------------------------------------------
(* src/app/api/combined/me/route.ts : GET *)

\* lines 70-85: "missing", "invalid" or "ok"
ValidateCombined(rawIfpaId, rawMatchPlayId) ==
  IF ~TruthyStr(rawIfpaId) /\ ~TruthyStr(rawMatchPlayId) THEN "missing"
  ELSE IF \/ (TruthyStr(rawIfpaId) /\ isNaN(parseInt(Val(rawIfpaId))))
          \/ (TruthyStr(rawMatchPlayId) /\ isNaN(parseInt(Val(rawMatchPlayId))))
       THEN "invalid"
       ELSE "ok"

\* line 89 and its twins in the ifpa and matchplay routes
RateLimitKey(route, clientIp) == route \o ":ratelimit:" \o clientIp

\* a variant of CombinedCacheKey that leaves an absent id out of the key
CombinedCacheKeyPacked(ifpaPlayerId, matchPlayUserId) ==
  "combined:" \o (IF IsNone(ifpaPlayerId) THEN "" ELSE NumStr(Val(ifpaPlayerId)))
              \o (IF IsNone(matchPlayUserId) THEN "" ELSE NumStr(Val(matchPlayUserId)))

\* line 103
CombinedCacheKey(ifpaPlayerId, matchPlayUserId) ==
  "combined:" \o IdStr(ifpaPlayerId) \o ":" \o IdStr(matchPlayUserId)

\* a variant of JoinBatch with Promise.all in place of Promise.allSettled
JoinFailFast(batch) ==
  [threw |-> \E k \in DOMAIN batch : batch[k].status = "rejected", slots |-> batch]

\* line 112: Promise.allSettled never rejects; each slot keeps its own outcome
JoinBatch(batch) == [threw |-> FALSE, slots |-> batch]

\* lines 118-134
IfpaResult(ifpaData) ==
  IF ifpaData.status = "fulfilled"
  THEN Some([rank |-> IF IsSome(Val(ifpaData.value).stats)
                      THEN Some(Val(Val(ifpaData.value).stats).current_rank)
                      ELSE None,
             eventsByYear |-> <<>>])
  ELSE None

GradeOf(ratingClass) ==
  CASE ratingClass = 1 -> "A+"
    [] ratingClass = 2 -> "A"
    [] ratingClass = 3 -> "B"
    [] ratingClass = 4 -> "C"
    [] ratingClass = 5 -> "D"
    [] OTHER -> ToString(ratingClass)

\* lines 136-152
MatchPlayResult(matchPlayData) ==
  IF matchPlayData.status = "fulfilled"
  THEN LET rating == Val(matchPlayData.value).rating
       IN Some([rating |-> IF IsSome(rating) THEN Some(Val(rating).rating) ELSE None,
                ratingClass |-> IF IsSome(rating) THEN Some(Val(rating).rating_class)
                                ELSE None,
                grade |-> IF IsSome(rating) /\ Val(rating).rating_class /= 0
                          THEN Some(GradeOf(Val(rating).rating_class))
                          ELSE None])
  ELSE None

\* `${first_name} ${last_name}`.trim(), for names that carry no white space of their own
FullName(player) ==
  IF player.first_name = "" THEN player.last_name
  ELSE IF player.last_name = "" THEN player.first_name
  ELSE player.first_name \o " " \o player.last_name

\* [city, stateprov].filter(Boolean).join(', ') || undefined
JoinedLocation(player) ==
  IF IsSome(player.city) /\ IsSome(player.stateprov)
  THEN Some(Val(player.city) \o ", " \o Val(player.stateprov))
  ELSE IF IsSome(player.city) THEN player.city
  ELSE player.stateprov

\* a variant of Identity that prefers the Match Play data to the IFPA data
IdentityMatchPlayFirst(ifpaData, matchPlayData, ifpaPlayerId, matchPlayUserId) ==
  [name |-> IF matchPlayData.status = "fulfilled"
            THEN (IF IsSome(Val(matchPlayData.value).user.name)
                  THEN Val(Val(matchPlayData.value).user.name) ELSE "Unknown Player")
            ELSE IF ifpaData.status = "fulfilled"
                 THEN FullName(Val(ifpaData.value).player)
                 ELSE "Unknown Player",
   location |-> IF matchPlayData.status = "fulfilled"
                THEN Val(matchPlayData.value).user.location
                ELSE IF ifpaData.status = "fulfilled"
                     THEN JoinedLocation(Val(ifpaData.value).player)
                     ELSE None,
   ifpa_id |-> ifpaPlayerId,
   matchplay_id |-> matchPlayUserId]

\* lines 154-172
Identity(ifpaData, matchPlayData, ifpaPlayerId, matchPlayUserId) ==
  [name |-> IF ifpaData.status = "fulfilled"
            THEN FullName(Val(ifpaData.value).player)
            ELSE IF matchPlayData.status = "fulfilled"
                    /\ IsSome(Val(matchPlayData.value).user.name)
                 THEN Val(Val(matchPlayData.value).user.name)
                 ELSE "Unknown Player",
   location |-> IF ifpaData.status = "fulfilled"
                THEN JoinedLocation(Val(ifpaData.value).player)
                ELSE IF matchPlayData.status = "fulfilled"
                     THEN Val(matchPlayData.value).user.location
                     ELSE None,
   ifpa_id |-> ifpaPlayerId,
   matchplay_id |-> matchPlayUserId]

\* lines 174-185: the list and the error text
RecentOpponents(opponentsData) ==
  IF opponentsData.status = "fulfilled" THEN Some(Val(opponentsData.value)) ELSE Some(<<>>)

\* a variant of OpponentsError that keeps no reason
OpponentsErrorDropped(opponentsData, matchPlayUserId) == None

OpponentsError(opponentsData, matchPlayUserId) ==
  IF opponentsData.status = "fulfilled" THEN None
  ELSE IF TruthyId(matchPlayUserId) THEN Some(opponentsData.reason)
  ELSE None

\* lines 118-195
DashboardData(slots, ifpaPlayerId, matchPlayUserId, idMismatchWarning, t) ==
  [identity |-> Identity(slots.ifpa, slots.matchplay, ifpaPlayerId, matchPlayUserId),
   ifpa |-> IfpaResult(slots.ifpa),
   matchplay |-> MatchPlayResult(slots.matchplay),
   recentOpponents |-> RecentOpponents(slots.opponents),
   recentOpponentsError |-> OpponentsError(slots.opponents, matchPlayUserId),
   idMismatchWarning |-> idMismatchWarning,
   lastUpdated |-> t]

----------------------------------------------------------------------------
(* Requests *)

MaxJitter == 1    \* single milliseconds the clock may advance within a period
MaxPeriods == 1   \* whole cache lifetimes the clock may advance

Reqs == {1}
Routes == {"combined", "ifpa", "matchplay"}
ClientIps == {"ip1"}

\* searchParams.get(...): null, or the text of the parameter
RawPool ==
  {None, Some(<<>>), Some(<<"1">>), Some(<<"2">>), Some(<<"-", "1">>),
   Some(<<"1", "a">>), Some(<<"a">>)}

\* getEnvVar('DEFAULT_IFPA_PLAYER_ID', '67715') and its Match Play twin
DefaultId(route) ==
  IF route = "ifpa" THEN <<"6", "7", "7", "1", "5">> ELSE <<"3", "7", "7", "3", "7">>

NoCalls == [profile |-> 0, stats |-> 0, opponents |-> 0]
NoBatch == [ifpa |-> NotIssued, matchplay |-> NotIssued, opponents |-> NotIssued]

IdleReq ==
  [pc |-> "idle", route |-> "", rawA |-> None, rawB |-> None, refresh |-> FALSE,
   clientIp |-> "", ifpaId |-> None, matchPlayId |-> None, idMismatchWarning |-> None,
   key |-> "", batch |-> NoBatch, status |-> 0, cached |-> FALSE, data |-> None,
   calls |-> NoCalls, cacheReads |-> 0, cacheWrites |-> 0]

\* NextResponse.json(createErrorResponse(...), {status})
Fail(req, code) == [req EXCEPT !.pc = "done", !.status = code]

\* NextResponse.json(createApiResponse(data, cached))
Succeed(req, data, cached) ==
  [req EXCEPT !.pc = "done", !.status = 200, !.data = Some(data), !.cached = cached]

\* the start state of the limiter: no window yet, or a window opened at time 0 in
\* which some requests of the client were already admitted
RlStart == {0, MAX_REQUESTS - 1, MAX_REQUESTS}

\* a variant of AdmitCombined that limits only after the profile fetch is out
AdmitCombinedLate(req, limited, branch) ==
  LET sent == [req EXCEPT !.calls.profile = IF branch = "neither" THEN 0 ELSE 1]
  IN IF limited THEN Fail(sent, 429) ELSE [sent EXCEPT !.pc = "resolving"]

\* combined GET, lines 91-100: a limited request is answered 429; an admitted one
\* calls resolvePlayerIds, which fetches one profile unless neither id is usable
AdmitCombined(req, limited, branch) ==
  IF limited THEN Fail(req, 429)
  ELSE [req EXCEPT !.pc = "resolving",
                   !.calls.profile = IF branch = "neither" THEN 0 ELSE 1]

\* combined GET, lines 62-100 up to the await of resolvePlayerIds
ReceiveCombined(r, rawIfpaId, rawMatchPlayId, refresh, ip) ==
  LET req == [IdleReq EXCEPT !.route = "combined", !.rawA = rawIfpaId,
                             !.rawB = rawMatchPlayId, !.refresh = refresh,
                             !.clientIp = ip]
      verdict == ValidateCombined(rawIfpaId, rawMatchPlayId)
      rl == IsRateLimited(rateLimits, RateLimitKey("combined", ip), MAX_REQUESTS,
                          WINDOW_MS, now)
      branch == ResolveBranch(rawIfpaId, rawMatchPlayId)
  IN /\ rq[r].pc = "idle"
     /\ started' = started + 1
     /\ IF verdict /= "ok"
        THEN /\ rq' = [rq EXCEPT ![r] = Fail(req, 400)]
             /\ UNCHANGED <<rateLimits>>
        ELSE /\ rateLimits' = rl.limits
             /\ rq' = [rq EXCEPT ![r] = AdmitCombined(req, rl.limited, branch)]
     /\ UNCHANGED <<now, cacheStore, ovars, walk, uvars>>

\* lines 112-116: the three calls of the batch; a call not made rejects at once
IssueBatch(req) ==
  [req EXCEPT !.pc = "fetching",
              !.calls.stats = (IF TruthyId(req.ifpaId) THEN 1 ELSE 0)
                              + (IF TruthyId(req.matchPlayId) THEN 1 ELSE 0),
              !.calls.opponents = IF TruthyId(req.matchPlayId) THEN 1 ELSE 0]

\* a variant of ResolvedCombined that issues the batch of three fetches before it
\* consults the cache
ResolvedCombinedFetchFirst(r, outcome) ==
  LET req == rq[r]
      ids == resolvePlayerIds(req.rawA, req.rawB, outcome)
      cacheKey == CombinedCacheKey(ids.ifpaId, ids.matchPlayId)
      got == CacheGet(cacheStore, cacheKey, now)
      req1 == IssueBatch([req EXCEPT !.ifpaId = ids.ifpaId,
                                     !.matchPlayId = ids.matchPlayId,
                                     !.idMismatchWarning = ids.idMismatchWarning,
                                     !.key = cacheKey])
  IN /\ req.pc = "resolving"
     /\ ResolveBranch(req.rawA, req.rawB) = "neither" => outcome = [ok |-> FALSE, link |-> None]
     /\ IF req.refresh
        THEN /\ rq' = [rq EXCEPT ![r] = req1]
             /\ UNCHANGED cacheStore
        ELSE /\ cacheStore' = got.store
             /\ LET req2 == [req1 EXCEPT !.cacheReads = @ + 1]
                IN IF IsSome(got.value)
                   THEN rq' = [rq EXCEPT ![r] = Succeed(req2, Val(got.value), TRUE)]
                   ELSE rq' = [rq EXCEPT ![r] = req2]
     /\ UNCHANGED <<now, rateLimits, started, ovars, walk, uvars>>

\* combined GET, lines 98-116: resolvePlayerIds returns, the cache is consulted and
\* either the cached record is returned or the batch of three fetches is issued
ResolvedCombined(r, outcome) ==
  LET req == rq[r]
      ids == resolvePlayerIds(req.rawA, req.rawB, outcome)
      cacheKey == CombinedCacheKey(ids.ifpaId, ids.matchPlayId)
      got == CacheGet(cacheStore, cacheKey, now)
      req1 == [req EXCEPT !.ifpaId = ids.ifpaId, !.matchPlayId = ids.matchPlayId,
                          !.idMismatchWarning = ids.idMismatchWarning,
                          !.key = cacheKey]
  IN /\ req.pc = "resolving"
     /\ ResolveBranch(req.rawA, req.rawB) = "neither" => outcome = [ok |-> FALSE, link |-> None]
     /\ IF req.refresh
        THEN /\ rq' = [rq EXCEPT ![r] = IssueBatch(req1)]
             /\ UNCHANGED cacheStore
        ELSE /\ cacheStore' = got.store
             /\ LET req2 == [req1 EXCEPT !.cacheReads = @ + 1]
                IN IF IsSome(got.value)
                   THEN rq' = [rq EXCEPT ![r] = Succeed(req2, Val(got.value), TRUE)]
                   ELSE rq' = [rq EXCEPT ![r] = IssueBatch(req2)]
     /\ UNCHANGED <<now, rateLimits, started, ovars, walk, uvars>>

\* the outcomes a call of the batch can have
IfpaOutcomes(id) ==
  IF TruthyId(id)
  THEN {Fulfilled(v) : v \in IfpaPayloads} \cup {Rejected(e) : e \in UpstreamErrors}
  ELSE {Rejected("No IFPA ID")}

MatchPlayOutcomes(id) ==
  IF TruthyId(id)
  THEN {Fulfilled(v) : v \in MatchPlayPayloads} \cup {Rejected(e) : e \in UpstreamErrors}
  ELSE {Rejected("No Match Play ID")}

OpponentOutcomes(id) ==
  IF TruthyId(id)
  THEN {Fulfilled(v) : v \in OpponentPayloads} \cup {Rejected(e) : e \in UpstreamErrors}
  ELSE {Rejected("No Match Play ID")}

\* a variant of SettledCombined that caches the record only when all three
\* fetches were fulfilled
SettledCombinedWholeOnly(r, ifpaData, matchPlayData, opponentsData) ==
  LET req == rq[r]
      batch == [ifpa |-> ifpaData, matchplay |-> matchPlayData,
                opponents |-> opponentsData]
      dashboardData == DashboardData(batch, req.ifpaId, req.matchPlayId,
                                     req.idMismatchWarning, now)
      whole == \A slot \in DOMAIN batch : batch[slot].status = "fulfilled"
  IN /\ req.pc = "fetching"
     /\ req.route = "combined"
     /\ cacheStore' = IF whole
                      THEN (req.key :> [data |-> dashboardData, timestamp |-> now,
                                        ttl |-> FIFTEEN_MINUTES]) @@ cacheStore
                      ELSE cacheStore
     /\ rq' = [rq EXCEPT ![r] =
                [req EXCEPT !.pc = "done", !.status = 200, !.batch = batch,
                            !.data = <<dashboardData>>, !.cached = FALSE,
                            !.cacheWrites = IF whole THEN @ + 1 ELSE @]]
     /\ UNCHANGED <<now, rateLimits, started, ovars, walk, uvars>>

\* combined GET, lines 112-207: the batch has settled; the record is assembled,
\* cached and returned
SettledCombined(r, ifpaData, matchPlayData, opponentsData) ==
  LET req == rq[r]
      batch == [ifpa |-> ifpaData, matchplay |-> matchPlayData,
                opponents |-> opponentsData]
      joined == JoinBatch(batch)
      dashboardData == DashboardData(joined.slots, req.ifpaId, req.matchPlayId,
                                     req.idMismatchWarning, now)
      req1 == [req EXCEPT !.batch = batch]
  IN /\ req.pc = "fetching"
     /\ req.route = "combined"
     /\ IF joined.threw
        THEN /\ rq' = [rq EXCEPT ![r] = Fail(req1, 500)]
             /\ UNCHANGED cacheStore
        ELSE /\ cacheStore' = CacheSet(cacheStore, req.key, dashboardData,
                                       FIFTEEN_MINUTES, now)
             /\ rq' = [rq EXCEPT ![r] =
                        Succeed([req1 EXCEPT !.cacheWrites = @ + 1], dashboardData, FALSE)]
     /\ UNCHANGED <<now, rateLimits, started, ovars, walk, uvars>>

----------------------------------------------------------------------------
(* src/app/api/ifpa/me/route.ts and src/app/api/matchplay/me/route.ts : GET *)

\* lines 16-18: the parameter if given, the configured default otherwise
SimpleId(route, raw) ==
  IF TruthyStr(raw) THEN parseInt(Val(raw)) ELSE parseInt(DefaultId(route))

\* line 39
SimpleCacheKey(route, id) ==
  (IF route = "ifpa" THEN "ifpa:player:" ELSE "matchplay:user:") \o NumStr(id)

\* a variant of LookupSimple that consults the cache whatever refresh says
LookupSimpleAlways(req, store, t) ==
  LET got == CacheGet(store, req.key, t)
  IN IF IsSome(got.value)
     THEN [req |-> Succeed([req EXCEPT !.cacheReads = @ + 1], Val(got.value), TRUE),
           store |-> got.store]
     ELSE [req |-> [req EXCEPT !.pc = "fetching", !.calls.stats = 1,
                               !.cacheReads = @ + 1],
           store |-> got.store]

\* lines 38-48: the cache is consulted unless refresh is asked for; on a miss the
\* provider is called
LookupSimple(req, store, t) ==
  LET got == CacheGet(store, req.key, t)
  IN IF req.refresh
     THEN [req |-> [req EXCEPT !.pc = "fetching", !.calls.stats = 1], store |-> store]
     ELSE IF IsSome(got.value)
          THEN [req |-> Succeed([req EXCEPT !.cacheReads = @ + 1], Val(got.value), TRUE),
                store |-> got.store]
          ELSE [req |-> [req EXCEPT !.pc = "fetching", !.calls.stats = 1,
                                    !.cacheReads = @ + 1],
                store |-> got.store]

\* lines 9-48 up to the await of the provider call
ReceiveSimple(r, route, raw, refresh, ip) ==
  LET id == SimpleId(route, raw)
      req == [IdleReq EXCEPT !.route = route, !.rawA = raw, !.refresh = refresh,
                             !.clientIp = ip, !.key = SimpleCacheKey(route, id)]
      rl == IsRateLimited(rateLimits, RateLimitKey(route, ip), MAX_REQUESTS,
                          WINDOW_MS, now)
      looked == LookupSimple(req, cacheStore, now)
  IN /\ rq[r].pc = "idle"
     /\ started' = started + 1
     /\ IF isNaN(id)
        THEN /\ rq' = [rq EXCEPT ![r] = Fail(req, 400)]
             /\ UNCHANGED <<rateLimits, cacheStore>>
        ELSE /\ rateLimits' = rl.limits
             /\ IF rl.limited
                THEN /\ rq' = [rq EXCEPT ![r] = Fail(req, 429)]
                     /\ UNCHANGED cacheStore
                ELSE /\ rq' = [rq EXCEPT ![r] = looked.req]
                     /\ cacheStore' = looked.store
     /\ UNCHANGED <<now, ovars, walk, uvars>>

\* lines 48-60: the provider call has settled
SettledSimple(r, outcome) ==
  LET req == rq[r]
  IN /\ req.pc = "fetching"
     /\ req.route \in {"ifpa", "matchplay"}
     /\ IF outcome.status = "fulfilled"
        THEN /\ cacheStore' = CacheSet(cacheStore, req.key, Val(outcome.value),
                                       FIFTEEN_MINUTES, now)
             /\ rq' = [rq EXCEPT ![r] =
                        Succeed([req EXCEPT !.cacheWrites = @ + 1],
                                Val(outcome.value), FALSE)]
        ELSE /\ rq' = [rq EXCEPT ![r] = Fail(req, 500)]
             /\ UNCHANGED cacheStore
     /\ UNCHANGED <<now, rateLimits, started, ovars, walk, uvars>>

----------------------------------------------------------------------------
(* The environment *)

\* time passes: one millisecond, or one cache lifetime
Tick(d) ==
  /\ (now + d) % FIFTEEN_MINUTES <= MaxJitter
  /\ now + d <= MaxPeriods * FIFTEEN_MINUTES + MaxJitter
  /\ now' = now + d
  /\ UNCHANGED <<cacheStore, rateLimits, rq, started, ovars, walk, uvars>>

\* POST /api/refresh without a pattern (route.ts lines 229-233): cache.clear()
ClearAll ==
  /\ cacheStore /= <<>>
  /\ cacheStore' = CacheClear(cacheStore)
  /\ UNCHANGED <<now, rateLimits, rq, started, ovars, walk, uvars>>

----------------------------------------------------------------------------
(* src/unnamed/part_002 (lib/providers/matchplay.ts) : getRecentOpponents  *)

DEFAULT_MAX_TOURNAMENTS == 5
TOP_N == 10

\* Array.prototype.indexOf, 1-based; 0 stands for -1
RECURSIVE IndexFrom(_, _, _)
IndexFrom(s, x, i) ==
  IF i > Len(s) THEN 0 ELSE IF s[i] = x THEN i ELSE IndexFrom(s, x, i + 1)
IndexOf(s, x) == IndexFrom(s, x, 1)

\* resultPositions[i]; 0 stands for every falsy value (0, null, undefined)
PositionAt(resultPositions, i) ==
  IF i <= Len(resultPositions) THEN resultPositions[i] ELSE 0

\* line 176: players.find(p => p.claimedBy === userId), as an index; 0 if none
RECURSIVE FindClaimed(_, _, _)
FindClaimed(players, userId, i) ==
  IF i > Len(players) THEN 0
  ELSE IF players[i].claimedBy = Some(userId) THEN i
  ELSE FindClaimed(players, userId, i + 1)

\* lines 181-182 and 203: nameOf.get(oppId) || `Player ${oppId}`; of two roster
\* entries with one playerId the later one is the one the lookup keeps
RECURSIVE LastWithId(_, _, _)
LastWithId(players, playerId, i) ==
  IF i = 0 THEN 0
  ELSE IF players[i].playerId = playerId THEN i
  ELSE LastWithId(players, playerId, i - 1)

OpponentName(players, oppId) ==
  LET k == LastWithId(players, oppId, Len(players))
  IN IF k /= 0 /\ players[k].name /= "" THEN players[k].name
     ELSE "Player " \o ToString(oppId)

\* the opponentMap is a Map: its entries, in the order their keys were first set
RECURSIVE MapIndex(_, _, _)
MapIndex(map, name, i) ==
  IF i > Len(map) THEN 0 ELSE IF map[i].name = name THEN i ELSE MapIndex(map, name, i + 1)

MapGet(map, name) ==
  LET k == MapIndex(map, name, 1)
  IN IF k = 0 THEN [name |-> name, wins |-> 0, losses |-> 0, lastPlayed |-> 0]
     ELSE map[k]

\* a variant of MapSet that adds an entry at every call
MapSetAppending(map, rec) == Append(map, rec)

MapSet(map, rec) ==
  LET k == MapIndex(map, rec.name, 1)
  IN IF k = 0 THEN Append(map, rec) ELSE [map EXCEPT ![k] = rec]

\* a variant of RecordEncounter that books an equal finish as a loss
RecordEncounterTieLost(map, oppName, ourPos, oppPos, gameDate) ==
  LET rec == MapGet(map, oppName)
      counted == IF ourPos < oppPos THEN [rec EXCEPT !.wins = @ + 1]
                 ELSE [rec EXCEPT !.losses = @ + 1]
      dated == IF gameDate > counted.lastPlayed
               THEN [counted EXCEPT !.lastPlayed = gameDate]
               ELSE counted
  IN MapSet(map, dated)

\* lines 207-220: one opponent of one game
RecordEncounter(map, oppName, ourPos, oppPos, gameDate) ==
  LET rec == MapGet(map, oppName)
      counted == IF ourPos < oppPos THEN [rec EXCEPT !.wins = @ + 1]
                 ELSE IF ourPos > oppPos THEN [rec EXCEPT !.losses = @ + 1]
                 ELSE rec
      dated == IF gameDate > counted.lastPlayed
               THEN [counted EXCEPT !.lastPlayed = gameDate]
               ELSE counted
  IN MapSet(map, dated)

\* lines 200-221: the loop over the participants of one game, from index i on.
\* (Here and in the loops below a CASE on the length of the map has the map of
\* one turn evaluated before the next turn starts, as the code does.)
RECURSIVE CompareFrom(_, _, _, _, _, _, _)
CompareFrom(map, players, game, ourIdx, ourPos, gameDate, i) ==
  IF i > Len(game.playerIds) THEN map
  ELSE IF i = ourIdx
       THEN CompareFrom(map, players, game, ourIdx, ourPos, gameDate, i + 1)
  ELSE LET oppId == game.playerIds[i]
           oppPos == PositionAt(game.resultPositions, i)
           recorded == RecordEncounter(map, OpponentName(players, oppId),
                                       ourPos, oppPos, gameDate)
       IN IF oppPos = 0
          THEN CompareFrom(map, players, game, ourIdx, ourPos, gameDate, i + 1)
          ELSE CASE Len(recorded) >= 0 ->
                 CompareFrom(recorded, players, game, ourIdx, ourPos, gameDate, i + 1)

\* a variant of GameDate that prefers the start of the tournament
GameDateOfEvent(game, startUtc) == IF startUtc /= 0 THEN startUtc ELSE game.startedAt

\* line 197: game.startedAt || startUtc || ''
GameDate(game, startUtc) == IF game.startedAt /= 0 THEN game.startedAt ELSE startUtc

\* lines 184-222: the body of the loop over the games of one tournament
AccumulateGame(map, players, ourPlayerId, startUtc, game) ==
  IF game.status /= "completed" \/ game.bye THEN map
  ELSE LET ourIdx == IndexOf(game.playerIds, ourPlayerId)
           ourPos == PositionAt(game.resultPositions, ourIdx)
       IN IF ourIdx = 0 THEN map
          ELSE IF ourPos = 0 THEN map
          ELSE CompareFrom(map, players, game, ourIdx, ourPos,
                           GameDate(game, startUtc), 1)

RECURSIVE AccumulateGames(_, _, _, _, _, _)
AccumulateGames(map, players, ourPlayerId, startUtc, games, g) ==
  IF g > Len(games) THEN map
  ELSE LET walked == AccumulateGame(map, players, ourPlayerId, startUtc, games[g])
       IN CASE Len(walked) >= 0 ->
            AccumulateGames(walked, players, ourPlayerId, startUtc, games, g + 1)

\* a variant of AccumulateTournament that, in a roster without an entry claimed by
\* the subject, takes the first entry for the subject's
AccumulateTournamentGuessing(map, userId, result) ==
  IF result.status /= "fulfilled" THEN map
  ELSE LET t == Val(result.value)
           found == FindClaimed(t.players, userId, 1)
           ours == IF found = 0 /\ Len(t.players) > 0 THEN 1 ELSE found
       IN IF ours = 0 THEN map
          ELSE AccumulateGames(map, t.players, t.players[ours].playerId,
                               t.startUtc, t.games, 1)

\* lines 171-223: the body of the loop over the settled tournaments
AccumulateTournament(map, userId, result) ==
  IF result.status /= "fulfilled" THEN map
  ELSE LET t == Val(result.value)
           ours == FindClaimed(t.players, userId, 1)
       IN IF ours = 0 THEN map
          ELSE AccumulateGames(map, t.players, t.players[ours].playerId,
                               t.startUtc, t.games, 1)

RECURSIVE AccumulateAll(_, _, _, _)
AccumulateAll(map, userId, tourneyData, k) ==
  IF k > Len(tourneyData) THEN map
  ELSE LET walked == AccumulateTournament(map, userId, tourneyData[k])
       IN CASE Len(walked) >= 0 -> AccumulateAll(walked, userId, tourneyData, k + 1)

\* a variant of ToRecentOpponent whose rate is null whenever there is no win
ToRecentOpponentNoWins(r) ==
  LET total == r.wins + r.losses
  IN [name |-> r.name, wins |-> r.wins, losses |-> r.losses, totalGames |-> total,
      winRate |-> IF r.wins > 0 THEN Some(<<r.wins, total>>) ELSE None,
      lastPlayed |-> r.lastPlayed]

\* lines 227-237: one entry of the map as a RecentOpponent; the quotient
\* wins / total is kept as the pair <<wins, total>>
ToRecentOpponent(r) ==
  LET total == r.wins + r.losses
  IN [name |-> r.name, wins |-> r.wins, losses |-> r.losses, totalGames |-> total,
      winRate |-> IF total > 0 THEN Some(<<r.wins, total>>) ELSE None,
      lastPlayed |-> r.lastPlayed]

\* a variant of SortsBefore that puts the earlier encounter first
SortsBeforeOldestFirst(a, b) == a.lastPlayed < b.lastPlayed

\* line 238: b.lastPlayed.localeCompare(a.lastPlayed) < 0, i.e. a goes before b
SortsBefore(a, b) == a.lastPlayed > b.lastPlayed

\* Array.prototype.sort is stable: an element comes after those that sort before
\* it and after those of equal rank that stood before it
SortRank(list, i) ==
  Cardinality({ j \in 1..Len(list) :
                  \/ SortsBefore(list[j], list[i])
                  \/ (~SortsBefore(list[i], list[j]) /\ j < i) }) + 1

SortByLastPlayed(list) ==
  [k \in 1..Len(list) |-> list[CHOOSE i \in 1..Len(list) : SortRank(list, i) = k]]

\* slice(0, n)
Slice(list, n) == SubSeq(list, 1, IF Len(list) < n THEN Len(list) ELSE n)

\* lines 226-239
Finish(map) ==
  Slice(SortByLastPlayed([i \in 1..Len(map) |-> ToRecentOpponent(map[i])]), TOP_N)

----------------------------------------------------------------------------
(* Match Play data the games loop is run on.  A timestamp is a natural      *)
(* number ordered as the ISO strings are, 0 standing for '' and null; a     *)
(* finish position is a natural number, 0 standing for a missing one.       *)

MaxWalk == 2
MaxPos == 2

UserId == 7
OtherUserId == 8

Player(playerId, name, claimedBy) ==
  [playerId |-> playerId, name |-> name, claimedBy |-> claimedBy]

\* rosters: the subject as player 1; the subject as player 2 between two players
\* of one name; a roster with a nameless player that leaves player 3 out
Rosters ==
  { << Player(1, "Me", Some(UserId)), Player(2, "Ann", None), Player(3, "Bob", None) >>,
    << Player(1, "Ann", None), Player(2, "Me", Some(UserId)), Player(3, "Ann", None) >>,
    << Player(1, "Me", Some(UserId)), Player(2, "", Some(OtherUserId)) >> }

Game(status, bye, startedAt, playerIds, resultPositions) ==
  [status |-> status, bye |-> bye, startedAt |-> startedAt,
   playerIds |-> playerIds, resultPositions |-> resultPositions]

Lineups == { <<1, 2>>, <<2, 3>>, <<3, 1, 2>> }

PositionsOf(lineup) == [1..Len(lineup) -> 0..MaxPos]

StartedAts == {0, 2}
StartUtcs == {0, 1}

\* completed games of every lineup with every assignment of positions
PlayedGames ==
  { Game("completed", FALSE, at, l, p) : at \in StartedAts,
      <<l, p>> \in UNION { {l} \X PositionsOf(l) : l \in Lineups } }

\* games the loop passes over, a game reported with fewer positions than
\* players, and the four-player game of the documentation
OtherGames ==
  { Game("completed", TRUE, 2, <<1, 2>>, <<1, 2>>),
    Game("in_progress", FALSE, 2, <<1, 2>>, <<1, 2>>),
    Game("in_progress", TRUE, 0, <<1, 2, 3>>, <<2, 1, 0>>),
    Game("completed", FALSE, 2, <<1, 2, 3>>, <<2, 1>>),
    Game("completed", FALSE, 2, <<1, 2, 3, 4>>, <<1, 2, 3, 4>>),
    Game("completed", FALSE, 0, <<4, 3, 2, 1>>, <<1, 1, 2, 2>>) }

GamePool == PlayedGames \cup OtherGames

Runs == {1, 2}

\* data ?? []
OrEmpty(o) == IF IsNone(o) THEN <<>> ELSE Val(o)

Pending == [status |-> "pending", value |-> None, reason |-> ""]

IdleRun ==
  [pc |-> "idle", maxTournaments |-> 0, recent |-> <<>>, slots |-> <<>>, open |-> {},
   arrivals |-> <<>>, map |-> <<>>, result |-> None, error |-> None,
   calls |-> [list |-> 0, roster |-> 0, games |-> 0]]

IdleWalk ==
  [pc |-> "idle", map |-> <<>>, players |-> <<>>, ourPlayerId |-> 0, startUtc |-> 0,
   game |-> None, steps |-> 0, result |-> None]

InitWalk ==
  /\ now = 0 /\ cacheStore = <<>> /\ rateLimits = <<>>
  /\ rq = [r \in Reqs |-> IdleReq] /\ started = 0
  /\ upstream = None /\ inv = [r \in Runs |-> IdleRun]
  /\ walk = IdleWalk
  /\ UnitsIdle

\* one turn of the loop over games (lines 184-222), in a tournament whose roster
\* has the subject in it (line 177)
WalkGame(players, startUtc, game) ==
  LET ours == FindClaimed(players, UserId, 1)
  IN /\ walk.pc /= "done"
     /\ walk.steps < MaxWalk
     /\ ours /= 0
     /\ walk' = [walk EXCEPT
                   !.pc = "walking", !.players = players,
                   !.ourPlayerId = players[ours].playerId,
                   !.startUtc = startUtc, !.game = Some(game),
                   !.steps = @ + 1,
                   !.map = AccumulateGame(walk.map, players, players[ours].playerId,
                                          startUtc, game)]
     /\ UNCHANGED <<hvars, ovars, uvars>>

\* lines 226-239: the map becomes the returned list
WalkFinish ==
  /\ walk.pc /= "done"
  /\ walk' = [walk EXCEPT !.pc = "done", !.result = Some(Finish(walk.map))]
  /\ UNCHANGED <<hvars, ovars, uvars>>

NextWalk ==
  \/ \E players \in Rosters, startUtc \in StartUtcs, game \in GamePool :
       WalkGame(players, startUtc, game)
  \/ WalkFinish

SpecWalk == InitWalk /\ [][NextWalk]_vars

----------------------------------------------------------------------------
(* getRecentOpponents as a whole: two invocations against one Match Play    *)

\* a variant of OnTourneyList that treats an empty tournament list as a failure
OnTourneyListEmptyRaises(run, tourneyList) ==
  IF tourneyList.status /= "fulfilled"
  THEN [run EXCEPT !.pc = "raised", !.error = Some(tourneyList.reason)]
  ELSE LET recentTourneys == Slice(OrEmpty(Val(tourneyList.value).data), run.maxTournaments)
           n == Len(recentTourneys)
       IN IF n = 0
          THEN [run EXCEPT !.pc = "raised", !.error = Some("no tournaments")]
          ELSE [run EXCEPT !.pc = "fetching", !.recent = recentTourneys,
                           !.slots = [k \in 1..n |-> Pending], !.open = 1..n,
                           !.calls.roster = n, !.calls.games = n]

\* a variant of OnTourneyList that fetches every tournament of the list
OnTourneyListWhole(run, tourneyList) ==
  IF tourneyList.status /= "fulfilled"
  THEN [run EXCEPT !.pc = "raised", !.error = Some(tourneyList.reason)]
  ELSE LET recentTourneys == OrEmpty(Val(tourneyList.value).data)
           n == Len(recentTourneys)
       IN IF n = 0
          THEN [run EXCEPT !.pc = "done", !.result = Some(<<>>)]
          ELSE [run EXCEPT !.pc = "fetching", !.recent = recentTourneys,
                           !.slots = [k \in 1..n |-> Pending], !.open = 1..n,
                           !.calls.roster = n, !.calls.games = n]

\* lines 137-162, from the answer to the tournament list up to the await of
\* Promise.allSettled: a rejected list raises, an empty one returns [], and
\* otherwise the roster and the games of each of the first maxTournaments are fetched
OnTourneyList(run, tourneyList) ==
  IF tourneyList.status /= "fulfilled"
  THEN [run EXCEPT !.pc = "raised", !.error = Some(tourneyList.reason)]
  ELSE LET recentTourneys == Slice(OrEmpty(Val(tourneyList.value).data), run.maxTournaments)
           n == Len(recentTourneys)
       IN IF n = 0
          THEN [run EXCEPT !.pc = "done", !.result = Some(<<>>)]
          ELSE [run EXCEPT !.pc = "fetching", !.recent = recentTourneys,
                           !.slots = [k \in 1..n |-> Pending], !.open = 1..n,
                           !.calls.roster = n, !.calls.games = n]

\* lines 147-160: Promise.all of the two fetches of one tournament, and the
\* object built from them; when both fetches fail the reason is either one's,
\* and nothing reads it
TourneyOutcome(t, answer) ==
  IF answer.detail.status /= "fulfilled" THEN Rejected(answer.detail.reason)
  ELSE IF answer.games.status /= "fulfilled" THEN Rejected(answer.games.reason)
  ELSE Fulfilled([tournamentId |-> t.tournamentId, startUtc |-> t.startUtc,
                  players |-> OrEmpty(Val(answer.detail.value).players),
                  games |-> OrEmpty(Val(answer.games.value).data)])

\* a variant of Settle that files an outcome in the first slot still pending
RECURSIVE FirstPending(_, _)
FirstPending(slots, k) ==
  IF k > Len(slots) THEN 0 ELSE IF slots[k].status = "pending" THEN k
  ELSE FirstPending(slots, k + 1)
SettleOnArrival(slots, k, outcome) ==
  [slots EXCEPT ![FirstPending(slots, 1)] = outcome]

\* Promise.allSettled (line 145): an outcome is filed at the index of its promise
Settle(slots, k, outcome) == [slots EXCEPT ![k] = outcome]

\* getRecentOpponents(userId, maxTournaments) is called: line 137 issues the
\* fetch of the tournament list
Invoke(r, maxTournaments) ==
  /\ inv[r].pc = "idle"
  /\ inv' = [inv EXCEPT ![r] = [@ EXCEPT !.pc = "listing",
                                         !.maxTournaments = maxTournaments,
                                         !.calls.list = 1]]
  /\ UNCHANGED <<hvars, upstream, walk, uvars>>

\* the tournament list is answered
ListAnswered(r) ==
  /\ inv[r].pc = "listing"
  /\ inv' = [inv EXCEPT ![r] = OnTourneyList(@, Val(upstream).list)]
  /\ UNCHANGED <<hvars, upstream, walk, uvars>>

\* both fetches of the k-th tournament are answered, or one of them has failed
TourneySettled(r, k) ==
  /\ inv[r].pc = "fetching"
  /\ k \in inv[r].open
  /\ LET t == inv[r].recent[k]
         outcome == TourneyOutcome(t, Val(upstream).events[t.tournamentId])
     IN inv' = [inv EXCEPT ![r] = [@ EXCEPT !.slots = Settle(@, k, outcome),
                                            !.open = @ \ {k},
                                            !.arrivals = Append(@, k)]]
  /\ UNCHANGED <<hvars, upstream, walk, uvars>>

\* lines 164-239, after the last tournament has settled: the walk, the sort, the cut
Return(r) ==
  /\ inv[r].pc = "fetching"
  /\ inv[r].open = {}
  /\ LET opponentMap == AccumulateAll(<<>>, UserId, inv[r].slots, 1)
     IN inv' = [inv EXCEPT ![r] = [@ EXCEPT !.pc = "done", !.map = opponentMap,
                                            !.result = Some(Finish(opponentMap))]]
  /\ UNCHANGED <<hvars, upstream, walk, uvars>>

----------------------------------------------------------------------------
(* What the Match Play API answers: the tournament list, and per tournament  *)
(* its detail and its games                                                  *)

MaxTourneys == 2

Answer(startUtc, detail, games) ==
  [startUtc |-> startUtc, detail |-> detail, games |-> games]
Detail(players) == Fulfilled([players |-> players])
Games(data) == Fulfilled([data |-> data])

SubjectFirst == << Player(1, "Me", Some(UserId)), Player(2, "Ann", None), Player(3, "Bob", None) >>
SubjectSecond == << Player(1, "Ann", None), Player(2, "Me", Some(UserId)), Player(3, "Ann", None) >>
SubjectAbsent == << Player(1, "Ann", None), Player(2, "Bob", Some(OtherUserId)) >>

GameLists ==
  { << Game("completed", FALSE, 2, <<1, 2>>, <<1, 2>>) >>,
    << Game("completed", FALSE, 2, <<3, 1>>, <<1, 2>>) >>,
    << Game("completed", FALSE, 0, <<1, 2>>, <<1, 1>>) >>,
    << Game("completed", TRUE, 2, <<1, 2>>, <<1, 2>>),
       Game("in_progress", FALSE, 2, <<1, 2>>, <<1, 2>>),
       Game("completed", FALSE, 2, <<1, 2>>, <<0, 1>>) >>,
    << Game("completed", FALSE, 0, <<3, 1, 2>>, <<1, 2, 3>>),
       Game("completed", FALSE, 3, <<1, 2>>, <<2, 1>>) >> }

TourneyAnswers ==
  { Answer(1, Detail(Some(players)), Games(Some(games))) :
      players \in {SubjectFirst, SubjectSecond}, games \in GameLists }
  \cup
  { Answer(0, Detail(Some(SubjectFirst)), Games(Some(games))) : games \in GameLists }
  \cup
  { Answer(1, Detail(Some(SubjectAbsent)), Games(Some(games))) : games \in GameLists }
  \cup
  { Answer(1, Detail(None), Games(Some(<<Game("completed", FALSE, 2, <<1, 2>>, <<1, 2>>)>>))),
    Answer(1, Detail(Some(SubjectFirst)), Games(None)),
    Answer(1, Detail(Some(SubjectFirst)), Games(Some(<<>>))) }
  \cup
  { Answer(1, detail, games) :
      <<detail, games>> \in
        { <<Rejected(e), Games(Some(<<>>))>> : e \in UpstreamErrors } \cup
        { <<Detail(Some(SubjectFirst)), Rejected(e)>> : e \in UpstreamErrors } }

\* the API as it answers for a sequence of tournaments, newest first
Api(answers) ==
  [list |-> Fulfilled([data |-> Some([k \in 1..Len(answers) |->
                                        [tournamentId |-> k,
                                         startUtc |-> answers[k].startUtc]])]),
   events |-> answers]

AnswerSeqs == UNION { [1..n -> TourneyAnswers] : n \in 0..MaxTourneys }

\* one tournament in which the subject met n opponents, one game each, won each;
\* the games all at one time, at times that repeat, or each later than the last
DatePatterns == {"same", "repeating", "rising"}
DateOf(pattern, j) ==
  IF pattern = "same" THEN 1 ELSE IF pattern = "repeating" THEN j % 3 ELSE j

WideAnswer(n, pattern) ==
  Answer(1,
    Detail(Some([i \in 1..(n + 1) |->
                   IF i = 1 THEN Player(1, "Me", Some(UserId))
                   ELSE Player(i, "N" \o ToString(i), None)])),
    Games(Some([j \in 1..n |->
                  Game("completed", FALSE, DateOf(pattern, j), <<1, j + 1>>, <<1, 2>>)])))

WideApis ==
  { Api(<<WideAnswer(n, pattern)>>) :
      n \in {TOP_N, TOP_N + 1, TOP_N + 2}, pattern \in DatePatterns }

\* a list of one tournament more than the default limit, each with one game
\* against an opponent of its own
LongAnswer(k) ==
  Answer(k,
    Detail(Some(<< Player(1, "Me", Some(UserId)), Player(2, "L" \o ToString(k), None) >>)),
    Games(Some(<< Game("completed", FALSE, 0, <<1, 2>>, <<1, 2>>) >>)))
LongApi == Api([k \in 1..(DEFAULT_MAX_TOURNAMENTS + 1) |-> LongAnswer(k)])

Apis ==
  { Api(answers) : answers \in AnswerSeqs }
  \cup WideApis
  \cup {LongApi}
  \cup { [list |-> Rejected(e), events |-> <<>>] : e \in UpstreamErrors }
  \cup { [list |-> Fulfilled([data |-> None]), events |-> <<>>] }

MaxTournamentChoices == {1, DEFAULT_MAX_TOURNAMENTS}

InitOpponents ==
  /\ now = 0 /\ cacheStore = <<>> /\ rateLimits = <<>>
  /\ rq = [r \in Reqs |-> IdleReq] /\ started = 0
  /\ walk = IdleWalk
  /\ UnitsIdle
  /\ \E api \in Apis : upstream = Some(api)
  /\ inv = [r \in Runs |-> IdleRun]

NextOpponents ==
  \/ \E r \in Runs, m \in MaxTournamentChoices : Invoke(r, m)
  \/ \E r \in Runs : ListAnswered(r)
  \/ \E r \in Runs, k \in 1..MaxTourneys : TourneySettled(r, k)
  \/ \E r \in Runs : Return(r)

SpecOpponents == InitOpponents /\ [][NextOpponents]_vars

----------------------------------------------------------------------------
(* One request to one of the three GET handlers *)

Init ==
  /\ now = 0
  /\ cacheStore = <<>>
  /\ \E c \in RlStart :
       rateLimits = IF c = 0 THEN <<>>
                    ELSE [k \in {RateLimitKey(rt, ip) : rt \in Routes, ip \in ClientIps}
                            |-> [count |-> c, resetTime |-> WINDOW_MS]]
  /\ rq = [r \in Reqs |-> IdleReq]
  /\ started = 0
  /\ upstream = None /\ inv = [r \in Runs |-> IdleRun] /\ walk = IdleWalk
  /\ UnitsIdle

Next ==
  \/ \E r \in Reqs, rawIfpaId \in RawPool, rawMatchPlayId \in RawPool,
        refresh \in BOOLEAN, ip \in ClientIps :
       started = 0 /\ ReceiveCombined(r, rawIfpaId, rawMatchPlayId, refresh, ip)
  \/ \E r \in Reqs, outcome \in ProfileOutcomes : ResolvedCombined(r, outcome)
  \/ \E r \in Reqs :
       \E ifpaData \in IfpaOutcomes(rq[r].ifpaId),
          matchPlayData \in MatchPlayOutcomes(rq[r].matchPlayId),
          opponentsData \in OpponentOutcomes(rq[r].matchPlayId) :
         SettledCombined(r, ifpaData, matchPlayData, opponentsData)
  \/ \E r \in Reqs, route \in {"ifpa", "matchplay"}, raw \in RawPool,
        refresh \in BOOLEAN, ip \in ClientIps :
       started = 0 /\ ReceiveSimple(r, route, raw, refresh, ip)
  \/ \E r \in Reqs :
       \E outcome \in IF rq[r].route = "ifpa" THEN IfpaOutcomes(Some(Num(1)))
                      ELSE MatchPlayOutcomes(Some(Num(1))) :
         SettledSimple(r, outcome)
  \/ \E d \in {1, FIFTEEN_MINUTES} : Tick(d)
  \/ ClearAll

Spec == Init /\ [][Next]_vars

----------------------------------------------------------------------------
(* Properties of the games loop and of the returned records *)

\* every name the loop can file an opponent under
NamePool == { OpponentName(players, id) : players \in Rosters, id \in 1..4 }

\* the counters the map holds for a name, zero when it holds none
Tally(map, name) ==
  LET at == { i \in 1..Len(map) : map[i].name = name }
  IN IF at = {} THEN [wins |-> 0, losses |-> 0]
     ELSE LET i == CHOOSE i \in at : TRUE
          IN [wins |-> map[i].wins, losses |-> map[i].losses]

Seats(game) == 1..Len(game.playerIds)
SubjectSeats(w) == { i \in Seats(Val(w.game)) : Val(w.game).playerIds[i] = w.ourPlayerId }
SeatPosition(w, i) == PositionAt(Val(w.game).resultPositions, i)

\* the game at hand is completed, is no bye, and has the subject in it with a position
Contributes(w) ==
  /\ Val(w.game).status = "completed"
  /\ ~Val(w.game).bye
  /\ \E i \in SubjectSeats(w) : SeatPosition(w, i) /= 0

\* the other participants of the game at hand, filed under the name, that have a
\* position; split by how the subject's position compares with theirs
Opponents(w, name) ==
  { i \in Seats(Val(w.game)) \ SubjectSeats(w) :
      /\ SeatPosition(w, i) /= 0
      /\ OpponentName(w.players, Val(w.game).playerIds[i]) = name }

SubjectPosition(w) == SeatPosition(w, CHOOSE i \in SubjectSeats(w) : TRUE)

BeatenBySubject(w, name) ==
  { i \in Opponents(w, name) : SubjectPosition(w) < SeatPosition(w, i) }
AheadOfSubject(w, name) ==
  { i \in Opponents(w, name) : SubjectPosition(w) > SeatPosition(w, i) }

GameCounted(before, w) ==
  \A name \in NamePool :
    /\ Tally(w.map, name).wins = Tally(before, name).wins +
         (IF Contributes(w) THEN Cardinality(BeatenBySubject(w, name)) ELSE 0)
    /\ Tally(w.map, name).losses = Tally(before, name).losses +
         (IF Contributes(w) THEN Cardinality(AheadOfSubject(w, name)) ELSE 0)

\* C2: a turn of the games loop changes the tallies only for a completed game
\* that is no bye and has the subject in it with a finish position; then every
\* other participant with a position adds one win to its opponent's tally if the
\* subject finished strictly ahead, one loss if strictly behind, nothing if level.
C2_GameTallies ==
  [][walk'.steps = walk.steps + 1 => GameCounted(walk.map, walk')]_vars

\* the documented game: first against second, third and fourth
C2_Witness ==
  /\ walk.steps = 1
  /\ walk.game = Some(Game("completed", FALSE, 2, <<1, 2, 3, 4>>, <<1, 2, 3, 4>>))
  /\ walk.ourPlayerId = 1
  /\ \A name \in {"Ann", "Bob", "Player 4"} :
       Tally(walk.map, name) = [wins |-> 1, losses |-> 0]

\* C3: every returned record has totalGames = wins + losses, a winRate of
\* wins / (wins + losses) when that sum is positive and a null winRate exactly
\* when it is zero; wins and losses are the map's, which level finishes never enter.
C3_RecordArithmetic ==
  walk.pc = "done" =>
    \A k \in 1..Len(Val(walk.result)) :
      LET r == Val(walk.result)[k]
      IN /\ r.wins = Tally(walk.map, r.name).wins
         /\ r.losses = Tally(walk.map, r.name).losses
         /\ r.totalGames = r.wins + r.losses
         /\ (r.wins + r.losses > 0 => r.winRate = Some(<<r.wins, r.wins + r.losses>>))
         /\ (r.winRate = None <=> r.wins + r.losses = 0)

\* a returned list with an opponent met only level, one only lost to, one beaten
C3_Witness ==
  /\ walk.pc = "done"
  /\ \E i, j, k \in 1..Len(Val(walk.result)) :
       /\ Val(walk.result)[i].totalGames = 0
       /\ Val(walk.result)[j].wins = 0 /\ Val(walk.result)[j].losses > 0
       /\ Val(walk.result)[k].wins > 0

----------------------------------------------------------------------------
(* Properties of whole invocations *)

Finished(r) == inv[r].pc \in {"done", "raised"}
Returned(r) == Val(inv[r].result)
ReturnedNames(r) == { Returned(r)[i].name : i \in 1..Len(Returned(r)) }

\* C4: a returned list has at most 10 entries, in non-increasing order of
\* lastPlayed, no two under one name, each an opponent of the map with its
\* lastPlayed; when the map holds more than 10 opponents the list holds 10 and
\* no opponent left out was played later than one that is in.
C4_TopTenByLastPlayed ==
  \A r \in Runs :
    inv[r].pc = "done" =>
      LET res == Returned(r)
          map == inv[r].map
      IN /\ Len(res) <= 10
         /\ \A i, j \in 1..Len(res) : i < j => res[i].lastPlayed >= res[j].lastPlayed
         /\ \A i, j \in 1..Len(res) : i /= j => res[i].name /= res[j].name
         /\ \A i \in 1..Len(res) : \E m \in 1..Len(map) :
              map[m].name = res[i].name /\ map[m].lastPlayed = res[i].lastPlayed
         /\ Len(map) <= 10 => Len(res) = Len(map)
         /\ Len(map) > 10 =>
              /\ Len(res) = 10
              /\ \A m \in 1..Len(map), i \in 1..Len(res) :
                   map[m].name \notin ReturnedNames(r) =>
                     map[m].lastPlayed <= res[i].lastPlayed

\* more than 10 opponents, and one left out that was played earlier than all ten
C4_Witness ==
  \E r \in Runs :
    /\ inv[r].pc = "done"
    /\ Len(inv[r].map) > 10
    /\ \E m \in 1..Len(inv[r].map) :
         /\ inv[r].map[m].name \notin ReturnedNames(r)
         /\ inv[r].map[m].lastPlayed < Returned(r)[10].lastPlayed

\* C5: two invocations for one subject, with one limit, against one API end
\* alike, and if they return, return the same list in the same order, in
\* whatever order their tournaments settled.
C5_SameListWhateverTheOrder ==
  (Finished(1) /\ Finished(2) /\ inv[1].maxTournaments = inv[2].maxTournaments) =>
    /\ inv[1].pc = inv[2].pc
    /\ inv[1].result = inv[2].result

\* both returned, their tournaments settled in opposite orders, and the list
\* starts with two opponents of one lastPlayed
C5_Witness ==
  /\ inv[1].pc = "done" /\ inv[2].pc = "done"
  /\ inv[1].arrivals = <<1, 2>> /\ inv[2].arrivals = <<2, 1>>
  /\ inv[1].result = inv[2].result
  /\ Len(Returned(1)) >= 2
  /\ Returned(1)[1].lastPlayed = Returned(1)[2].lastPlayed

\* the tournaments an invocation examines, read off the API
ExaminedAnswers(r) ==
  LET api == Val(upstream)
      data == OrEmpty(Val(api.list.value).data)
      n == IF Len(data) < inv[r].maxTournaments THEN Len(data) ELSE inv[r].maxTournaments
  IN { api.events[data[k].tournamentId] : k \in 1..n }

\* a tournament whose two fetches succeed and which has a completed game, no
\* bye, with the subject in it and the subject's position present
HasQualifyingGame(answer) ==
  /\ answer.detail.status = "fulfilled"
  /\ answer.games.status = "fulfilled"
  /\ LET players == OrEmpty(Val(answer.detail.value).players)
         games == OrEmpty(Val(answer.games.value).data)
     IN \E p \in 1..Len(players), g \in 1..Len(games) :
          /\ players[p].claimedBy = Some(UserId)
          /\ games[g].status = "completed"
          /\ ~games[g].bye
          /\ \E i \in 1..Len(games[g].playerIds) :
               /\ games[g].playerIds[i] = players[p].playerId
               /\ PositionAt(games[g].resultPositions, i) /= 0

\* C6: with the tournament list answered, an invocation that examines no
\* tournament, or none with a qualifying game, returns the empty list and does
\* not raise; one that examines no tournament fetches no roster and no games.
C6_NothingToReportIsEmpty ==
  \A r \in Runs :
    (inv[r].pc /= "idle" /\ Val(upstream).list.status = "fulfilled") =>
      /\ ExaminedAnswers(r) = {} =>
           inv[r].calls.roster = 0 /\ inv[r].calls.games = 0
      /\ (Finished(r) /\ \A answer \in ExaminedAnswers(r) : ~HasQualifyingGame(answer)) =>
           inv[r].pc = "done" /\ inv[r].result = Some(<<>>)

\* tournaments examined, the subject on a roster, games played, none qualifying
C6_Witness ==
  \E r \in Runs :
    /\ inv[r].pc = "done"
    /\ inv[r].result = Some(<<>>)
    /\ \E k \in 1..Len(inv[r].slots) :
         /\ inv[r].slots[k].status = "fulfilled"
         /\ FindClaimed(Val(inv[r].slots[k].value).players, UserId, 1) /= 0
         /\ Len(Val(inv[r].slots[k].value).games) > 0

----------------------------------------------------------------------------
(* Properties of the GET handlers *)

Combined(r) == rq[r].route = "combined" /\ rq[r].pc = "done"
Assembled(r) == Combined(r) /\ rq[r].status = 200 /\ ~rq[r].cached

\* C1: a combined request that passed validation and the rate limit is answered
\* 200, never 500, whatever the two stats fetches did; the record it assembled
\* has an ifpa block exactly if getPlayerData fulfilled and a matchplay block
\* exactly if getUserSummary fulfilled.
C1_BlocksFollowTheirFetch ==
  \A r \in Reqs :
    (Combined(r) /\ rq[r].status \notin {400, 429}) =>
      /\ rq[r].status = 200
      /\ ~rq[r].cached =>
           /\ IsSome(Val(rq[r].data).ifpa) <=> rq[r].batch.ifpa.status = "fulfilled"
           /\ IsSome(Val(rq[r].data).matchplay) <=> rq[r].batch.matchplay.status = "fulfilled"

\* both stats fetches were made; Provider A's failed, Provider B's block is there
C1_Witness ==
  \E r \in Reqs :
    /\ Assembled(r)
    /\ TruthyId(rq[r].ifpaId) /\ TruthyId(rq[r].matchPlayId)
    /\ rq[r].batch.ifpa.status = "rejected"
    /\ rq[r].batch.matchplay.status = "fulfilled"
    /\ IsNone(Val(rq[r].data).ifpa)
    /\ IsSome(Val(rq[r].data).matchplay)

\* C7 (as claimed): in an assembled record the opponent list is null when
\* getRecentOpponents failed, and a list only when it fulfilled.
C7_FailedListIsNull ==
  \A r \in Reqs :
    (Assembled(r) /\ TruthyId(rq[r].matchPlayId)
       /\ rq[r].batch.opponents.status = "rejected") =>
      IsNone(Val(rq[r].data).recentOpponents)

\* C8: when a Match Play id was resolved and getRecentOpponents rejected, the
\* request is still answered 200 and the record carries the reason as
\* recentOpponentsError; when getRecentOpponents fulfilled the record carries none.
C8_OpponentsFailureIsAWarning ==
  \A r \in Reqs :
    (Combined(r) /\ ~rq[r].cached) =>
      /\ (TruthyId(rq[r].matchPlayId) /\ rq[r].batch.opponents.status = "rejected") =>
           /\ rq[r].status = 200
           /\ Val(rq[r].data).recentOpponentsError = Some(rq[r].batch.opponents.reason)
      /\ rq[r].batch.opponents.status = "fulfilled" =>
           /\ rq[r].status = 200
           /\ IsNone(Val(rq[r].data).recentOpponentsError)

\* getRecentOpponents rejected while the stats of the same user were fetched
C8_Witness ==
  \E r \in Reqs :
    /\ Assembled(r)
    /\ TruthyId(rq[r].matchPlayId)
    /\ rq[r].batch.opponents.status = "rejected"
    /\ rq[r].batch.matchplay.status = "fulfilled"
    /\ IsSome(Val(rq[r].data).recentOpponentsError)

\* a string of decimal digits, at least one
IsNonNegativeIntegerLiteral(str) ==
  Len(str) > 0 /\ \A i \in 1..Len(str) : IsDigit(str[i])

\* C9 (as claimed): a combined request with neither id, or with an id given that
\* is no non-negative integer literal, is answered 400 and makes no fetch.
C9_OnlyLiteralsPass ==
  \A r \in Reqs :
    (/\ Combined(r)
     /\ \/ (~TruthyStr(rq[r].rawA) /\ ~TruthyStr(rq[r].rawB))
        \/ (TruthyStr(rq[r].rawA) /\ ~IsNonNegativeIntegerLiteral(Val(rq[r].rawA)))
        \/ (TruthyStr(rq[r].rawB) /\ ~IsNonNegativeIntegerLiteral(Val(rq[r].rawB)))) =>
      rq[r].status = 400 /\ rq[r].calls = NoCalls

\* C10: a request answered 429, on any of the three routes, has made no
\* upstream call of any kind and has neither read nor written the cache.
C10_LimitBeforeAnyFetch ==
  \A r \in Reqs :
    rq[r].status = 429 =>
      /\ rq[r].calls = NoCalls
      /\ rq[r].cacheReads = 0 /\ rq[r].cacheWrites = 0
      /\ cacheStore = <<>>

\* a combined request with two usable ids, turned away by the limiter
C10_Witness ==
  \E r \in Reqs :
    /\ Combined(r)
    /\ rq[r].status = 429
    /\ rq[r].rawA = Some(<<"1">>) /\ rq[r].rawB = Some(<<"2">>)

----------------------------------------------------------------------------
(* src/lib/cache.ts : isRateLimited on its own, called at any times *)

MaxAdmits == 12
MaxWindows == 1

LimiterKeys == { RateLimitKey("combined", ip) : ip \in {"ip1", "ip2"} }

AdmitsOf(key) == IF Has(admits, key) THEN admits[key] ELSE <<>>

InitLimiter ==
  /\ now = 0 /\ cacheStore = <<>> /\ rateLimits = <<>>
  /\ rq = [r \in Reqs |-> IdleReq] /\ started = 0
  /\ upstream = None /\ inv = [r \in Runs |-> IdleRun] /\ walk = IdleWalk
  /\ UnitsIdle

\* cache.isRateLimited(key, RATE_LIMIT.MAX_REQUESTS, RATE_LIMIT.WINDOW_MS)
Limit(key) ==
  LET rl == IsRateLimited(rateLimits, key, MAX_REQUESTS, WINDOW_MS, now)
  IN /\ Len(AdmitsOf(key)) < MaxAdmits
     /\ rateLimits' = rl.limits
     /\ call' = [method |-> "isRateLimited", key |-> key, returned |-> Some(rl.limited)]
     /\ admits' = IF rl.limited THEN admits
                  ELSE (key :> Append(AdmitsOf(key), now)) @@ admits
     /\ UNCHANGED <<now, cacheStore, rq, started, ovars, walk, ft>>

\* time passes: one millisecond, or one window
Elapse(d) ==
  /\ (now + d) % WINDOW_MS <= MaxJitter
  /\ now + d <= MaxWindows * WINDOW_MS + MaxJitter
  /\ now' = now + d
  /\ UNCHANGED <<cacheStore, rateLimits, rq, started, ovars, walk, uvars>>

NextLimiter ==
  \/ \E key \in LimiterKeys : Limit(key)
  \/ \E d \in {1, WINDOW_MS} : Elapse(d)

SpecLimiter == InitLimiter /\ [][NextLimiter]_vars

\* C11 (as claimed): for every key, the calls let pass within any stretch of
\* time shorter than windowMs number at most maxRequests.
C11_SlidingWindow ==
  \A key \in DOMAIN admits :
    \A i \in 1..Len(admits[key]) :
      Cardinality({ j \in i..Len(admits[key]) :
                      admits[key][j] - admits[key][i] < WINDOW_MS }) <= MAX_REQUESTS

----------------------------------------------------------------------------
(* src/lib/cache.ts : get, set, delete, clear and cleanup on their own *)

CacheKeys == {"k1", "k2"}
CacheData == {"v1", "v2"}
CacheTtls == {1, FIFTEEN_MINUTES}

InitCache ==
  /\ now = 0 /\ cacheStore = <<>> /\ rateLimits = <<>>
  /\ rq = [r \in Reqs |-> IdleReq] /\ started = 0
  /\ upstream = None /\ inv = [r \in Runs |-> IdleRun] /\ walk = IdleWalk
  /\ UnitsIdle

Get(key) ==
  LET got == CacheGet(cacheStore, key, now)
  IN /\ cacheStore' = got.store
     /\ call' = [method |-> "get", key |-> key, returned |-> got.value]
     /\ UNCHANGED <<now, rateLimits, rq, started, ovars, walk, admits, ft>>

Set(key, data, ttlMs) ==
  /\ cacheStore' = CacheSet(cacheStore, key, data, ttlMs, now)
  /\ call' = [method |-> "set", key |-> key, returned |-> None]
  /\ UNCHANGED <<now, rateLimits, rq, started, ovars, walk, admits, ft>>

Delete(key) ==
  /\ cacheStore' = CacheDelete(cacheStore, key)
  /\ call' = [method |-> "delete", key |-> key, returned |-> Some(Has(cacheStore, key))]
  /\ UNCHANGED <<now, rateLimits, rq, started, ovars, walk, admits, ft>>

Clear ==
  /\ cacheStore' = CacheClear(cacheStore)
  /\ call' = [method |-> "clear", key |-> "", returned |-> None]
  /\ UNCHANGED <<now, rateLimits, rq, started, ovars, walk, admits, ft>>

Cleanup ==
  /\ cacheStore' = CacheCleanup(cacheStore, now)
  /\ rateLimits' = LimitsCleanup(rateLimits, now)
  /\ call' = [method |-> "cleanup", key |-> "",
              returned |-> Some(Cardinality(DOMAIN cacheStore)
                                - Cardinality(DOMAIN CacheCleanup(cacheStore, now)))]
  /\ UNCHANGED <<now, rq, started, ovars, walk, admits, ft>>

NextCache ==
  \/ \E key \in CacheKeys : Get(key)
  \/ \E key \in CacheKeys, data \in CacheData, ttlMs \in CacheTtls : Set(key, data, ttlMs)
  \/ \E key \in CacheKeys : Delete(key)
  \/ Clear
  \/ Cleanup
  \/ \E d \in {1, FIFTEEN_MINUTES} : Tick(d)

SpecCache == InitCache /\ [][NextCache]_vars

\* an entry is there and no older than its ttl
Fresh(key) ==
  /\ key \in DOMAIN cacheStore
  /\ now - cacheStore[key].timestamp <= cacheStore[key].ttl

GetAnswers(key) ==
  /\ call'.returned = IF Fresh(key) THEN Some(cacheStore[key].data) ELSE None
  /\ DOMAIN cacheStore' = IF Fresh(key) THEN DOMAIN cacheStore ELSE DOMAIN cacheStore \ {key}
  /\ \A k \in DOMAIN cacheStore' : cacheStore'[k] = cacheStore[k]

\* C12: get(key) returns the stored value exactly if an entry is there and the
\* time since its set is at most its ttl, and absent otherwise; an entry it finds
\* expired it removes, and it changes nothing else.  The passing of time removes
\* nothing, and a set replaces value, insertion time and ttl of its key together.
C12_LazyExpiry ==
  [][ /\ \A key \in CacheKeys : Get(key) => GetAnswers(key)
      /\ now' /= now => cacheStore' = cacheStore
      /\ \A key \in CacheKeys, data \in CacheData, ttlMs \in CacheTtls :
           Set(key, data, ttlMs) =>
             cacheStore'[key] = [data |-> data, timestamp |-> now, ttl |-> ttlMs] ]_vars

\* a get that found an entry exactly as old as its ttl, set anew after a first set
C12_Witness ==
  /\ call.method = "get"
  /\ call.key \in DOMAIN cacheStore
  /\ now > 0
  /\ now - cacheStore[call.key].timestamp = cacheStore[call.key].ttl
  /\ call.returned = Some(cacheStore[call.key].data)

----------------------------------------------------------------------------
(* Two requests to the combined GET handler, the second arriving once the  *)
(* first has been answered                                                 *)

FlowReqs == {1, 2}
FlowRaw == { <<Some(<<"1">>), None>>, <<None, Some(<<"1">>)>>, <<Some(<<"1">>), Some(<<"1">>)>> }
FlowProfiles == { [ok |-> FALSE, link |-> None], [ok |-> TRUE, link |-> Some(<<"1">>)] }

\* one payload per fetch; the failures of a fetch only where asked for
FlowOutcomes(outcomes, failing) ==
  LET fulfilled == { o \in outcomes : o.status = "fulfilled" }
  IN IF fulfilled = {} THEN outcomes
     ELSE {CHOOSE o \in fulfilled : TRUE} \cup (IF failing THEN outcomes \ fulfilled ELSE {})

InitFlow ==
  /\ now = 0 /\ cacheStore = <<>> /\ rateLimits = <<>>
  /\ rq = [r \in FlowReqs |-> IdleReq] /\ started = 0
  /\ upstream = None /\ inv = [r \in Runs |-> IdleRun] /\ walk = IdleWalk
  /\ UnitsIdle

NextFlow ==
  \/ \E r \in FlowReqs, raw \in FlowRaw, refresh \in BOOLEAN, ip \in ClientIps :
       /\ \A q \in FlowReqs : q < r => rq[q].pc = "done"
       /\ ReceiveCombined(r, raw[1], raw[2], refresh, ip)
  \/ \E r \in FlowReqs, outcome \in FlowProfiles : ResolvedCombined(r, outcome)
  \/ \E r \in FlowReqs :
       \E ifpaData \in FlowOutcomes(IfpaOutcomes(rq[r].ifpaId), TRUE),
          matchPlayData \in FlowOutcomes(MatchPlayOutcomes(rq[r].matchPlayId), TRUE),
          opponentsData \in FlowOutcomes(OpponentOutcomes(rq[r].matchPlayId), TRUE) :
         SettledCombined(r, ifpaData, matchPlayData, opponentsData)
  \/ \E d \in {1, FIFTEEN_MINUTES} : Tick(d)
  \/ ClearAll

SpecFlow == InitFlow /\ [][NextFlow]_vars

----------------------------------------------------------------------------
(* The combined record in the cache *)

\* the combined handler has just looked in the cache for request r
LookedUp(r) == rq[r].pc = "resolving" /\ rq'[r].pc /= "resolving"

\* the cache holds under the key a record no older than fifteen minutes
FreshRecord(key) ==
  /\ Has(cacheStore, key)
  /\ now - cacheStore[key].timestamp <= FIFTEEN_MINUTES

\* an earlier request assembled the record and stored it under the key
StoredBefore(r, key, data) ==
  \E q \in FlowReqs \ {r} :
    /\ rq[q].cacheWrites = 1
    /\ rq[q].key = key
    /\ rq[q].data = Some(data)

\* C13: a combined response is marked cached only when the cache holds, under the
\* request's key, a record stored at most fifteen minutes earlier by another
\* request and not cleared since, and the data returned are exactly that record;
\* a request without refresh that finds no such record issues fresh fetches
C13_CachedOnlyWhileFresh ==
  [][ \A r \in FlowReqs :
        LookedUp(r) =>
          /\ rq'[r].cached =>
               /\ FreshRecord(rq'[r].key)
               /\ rq'[r].data = Some(cacheStore[rq'[r].key].data)
               /\ StoredBefore(r, rq'[r].key, cacheStore[rq'[r].key].data)
               /\ cacheStore' = cacheStore
          /\ (~rq'[r].refresh /\ ~FreshRecord(rq'[r].key)) =>
               /\ ~rq'[r].cached
               /\ rq'[r].pc = "fetching"
               /\ rq'[r].calls.stats + rq'[r].calls.opponents >= 1 ]_vars

\* a request was answered from a record exactly fifteen minutes old
C13_Witness ==
  \E r \in FlowReqs :
    /\ rq[r].pc = "done" /\ rq[r].cached
    /\ Has(cacheStore, rq[r].key)
    /\ now - cacheStore[rq[r].key].timestamp = FIFTEEN_MINUTES
    /\ rq[r].data = Some(cacheStore[rq[r].key].data)

\* a request without refresh arrived after the record had expired and fetched afresh
C13_WitnessExpired ==
  \E r \in FlowReqs, q \in FlowReqs :
    /\ rq[q].pc = "done" /\ rq[q].cacheWrites = 1
    /\ rq[r].pc = "fetching" /\ ~rq[r].refresh /\ rq[r].key = rq[q].key
    /\ now - Val(rq[q].data).lastUpdated > FIFTEEN_MINUTES

----------------------------------------------------------------------------
(* The key of the combined record *)

\* resolved ids whose decimal texts are prefixes and suffixes of one another
KeyIds == {None, Some(Num(1)), Some(Num(5)), Some(Num(15))}

\* the pair of ids the handler resolved for request r
ResolvedPair(r) == <<rq[r].ifpaId, rq[r].matchPlayId>>

\* request r is past resolvePlayerIds
Keyed(r) == rq[r].key /= ""

\* C14: the combined cache key is injective in the resolved pair of ids, so that
\* (5, none), (none, 5) and (5, 5) have three different keys, two requests share a
\* key only when they resolved to the same pair, and a cached record is served
\* only to a request that resolved to the pair the record was assembled for
C14_KeyTellsPairsApart ==
  /\ Cardinality({ CombinedCacheKey(pair[1], pair[2]) : pair \in KeyIds \X KeyIds })
       = Cardinality(KeyIds \X KeyIds)
  /\ Cardinality({ CombinedCacheKey(Some(Num(5)), None),
                   CombinedCacheKey(None, Some(Num(5))),
                   CombinedCacheKey(Some(Num(5)), Some(Num(5))) }) = 3
  /\ \A r \in FlowReqs, q \in FlowReqs :
       (Keyed(r) /\ Keyed(q)) =>
         (rq[r].key = rq[q].key <=> ResolvedPair(r) = ResolvedPair(q))
  /\ \A r \in FlowReqs :
       (rq[r].pc = "done" /\ rq[r].cached) =>
         /\ Val(rq[r].data).identity.ifpa_id = rq[r].ifpaId
         /\ Val(rq[r].data).identity.matchplay_id = rq[r].matchPlayId

\* a request for (1, none) stored its record and a later request for (none, 1),
\* looking in the cache before the record expired, was not given it
C14_Witness ==
  \E r \in FlowReqs, q \in FlowReqs :
    /\ rq[q].pc = "done" /\ rq[q].cacheWrites = 1
    /\ ResolvedPair(q) = <<Some(Num(1)), None>>
    /\ ResolvedPair(r) = <<None, Some(Num(1))>>
    /\ rq[r].cacheReads = 1 /\ rq[r].pc = "fetching"
    /\ Has(cacheStore, rq[q].key)
    /\ now - cacheStore[rq[q].key].timestamp <= FIFTEEN_MINUTES

----------------------------------------------------------------------------
(* One request to the combined GET handler, over every spelling of an id *)

\* the texts a client can put in ifpaId and matchPlayId
IdRaw == RawPool \cup {Some(<<"0">>)}

InitIds ==
  /\ now = 0 /\ cacheStore = <<>> /\ rateLimits = <<>>
  /\ rq = [r \in Reqs |-> IdleReq] /\ started = 0
  /\ upstream = None /\ inv = [r \in Runs |-> IdleRun] /\ walk = IdleWalk
  /\ UnitsIdle

NextIds ==
  \/ \E r \in Reqs, rawIfpaId \in IdRaw, rawMatchPlayId \in IdRaw, refresh \in BOOLEAN,
        ip \in ClientIps :
       ReceiveCombined(r, rawIfpaId, rawMatchPlayId, refresh, ip)
  \/ \E r \in Reqs, outcome \in ProfileOutcomes : ResolvedCombined(r, outcome)
  \/ \E r \in Reqs :
       \E ifpaData \in FlowOutcomes(IfpaOutcomes(rq[r].ifpaId), TRUE),
          matchPlayData \in FlowOutcomes(MatchPlayOutcomes(rq[r].matchPlayId), TRUE),
          opponentsData \in FlowOutcomes(OpponentOutcomes(rq[r].matchPlayId), TRUE) :
         SettledCombined(r, ifpaData, matchPlayData, opponentsData)

SpecIds == InitIds /\ [][NextIds]_vars

\* the caller supplied a value for the parameter
Supplied(raw) == TruthyStr(raw)

\* the cross-link of a profile is a usable id of the other provider
ValidLink(outcome) == TruthyNum(Number(outcome.link))

\* the cross-link of a profile is absent, or text that is no number
NoLink(outcome) == IsNone(outcome.link) \/ isNaN(Number(outcome.link))

\* resolvePlayerIds has returned to the handler without raising
ResolverReturned(req) == req.pc \in {"fetching", "done"} /\ req.status /= 500

\* C15: when exactly one id is supplied and the lookup of its profile fails, or
\* the profile's cross-link is absent or unparseable, resolvePlayerIds returns the
\* other id unset, the supplied id unchanged and no mismatch warning, and raises
\* no error
C15_NoLinkLeavesOtherUnset ==
  [][ \A r \in Reqs, outcome \in ProfileOutcomes :
        ( /\ ResolvedCombined(r, outcome)
          /\ Supplied(rq[r].rawA) /= Supplied(rq[r].rawB)
          /\ (~outcome.ok \/ NoLink(outcome)) ) =>
          /\ ResolverReturned(rq'[r])
          /\ rq'[r].idMismatchWarning = None
          /\ IF Supplied(rq[r].rawA)
             THEN /\ rq'[r].ifpaId = Some(parseInt(Val(rq[r].rawA)))
                  /\ rq'[r].matchPlayId = None
             ELSE /\ rq'[r].matchPlayId = Some(parseInt(Val(rq[r].rawB)))
                  /\ rq'[r].ifpaId = None ]_vars

\* only ifpaId was supplied, its profile was looked up, and resolvePlayerIds
\* returned with matchPlayId unset
C15_Witness ==
  \E r \in Reqs :
    /\ Supplied(rq[r].rawA) /\ ~Supplied(rq[r].rawB)
    /\ rq[r].calls.profile = 1
    /\ rq[r].pc = "fetching"
    /\ rq[r].ifpaId = Some(parseInt(Val(rq[r].rawA)))
    /\ rq[r].matchPlayId = None
    /\ rq[r].idMismatchWarning = None

\* C16: when both ids are supplied resolvePlayerIds returns both unchanged in every
\* case; the mismatch warning is set if and only if the IFPA profile was fetched
\* and its cross-link is a valid Match Play id other than the supplied one; a
\* failed verifying fetch sets no warning and raises no error; and the handler
\* goes on to fetch the data of both supplied ids
C16_BothKeptWarningIffMismatch ==
  [][ \A r \in Reqs, outcome \in ProfileOutcomes :
        ( /\ ResolvedCombined(r, outcome)
          /\ Supplied(rq[r].rawA) /\ Supplied(rq[r].rawB) ) =>
          /\ ResolverReturned(rq'[r])
          /\ rq'[r].ifpaId = Some(parseInt(Val(rq[r].rawA)))
          /\ rq'[r].matchPlayId = Some(parseInt(Val(rq[r].rawB)))
          /\ IsSome(rq'[r].idMismatchWarning) <=>
               /\ outcome.ok
               /\ ValidLink(outcome)
               /\ Number(outcome.link) /= parseInt(Val(rq[r].rawB))
          /\ ~outcome.ok => rq'[r].idMismatchWarning = None
          /\ rq'[r].pc = "fetching" /\ rq'[r].calls.stats = 2 ]_vars

\* the id resolvePlayerIds may return for a provider: the supplied one, or the
\* cross-link of the fetched profile of the other provider's supplied id
Origins(raw, otherRaw, outcome) ==
  {InitialId(raw)}
  \cup (IF Supplied(otherRaw) /\ outcome.ok /\ ValidLink(outcome)
        THEN {Some(Number(outcome.link))} ELSE {})

\* C17: every id resolvePlayerIds returns is the value supplied for that provider
\* or the cross-link read from the fetched profile of the other supplied id, and
\* a supplied id is never replaced by a cross-linked one
C17_SuppliedIdsAreKept ==
  [][ \A r \in Reqs, outcome \in ProfileOutcomes :
        ResolvedCombined(r, outcome) =>
          /\ rq'[r].ifpaId \in Origins(rq[r].rawA, rq[r].rawB, outcome)
          /\ rq'[r].matchPlayId \in Origins(rq[r].rawB, rq[r].rawA, outcome)
          /\ Supplied(rq[r].rawA) => rq'[r].ifpaId = InitialId(rq[r].rawA)
          /\ Supplied(rq[r].rawB) => rq'[r].matchPlayId = InitialId(rq[r].rawB) ]_vars

----------------------------------------------------------------------------
(* The identity block of the combined record *)

\* the identity of the record request r assembled, and the two stats fetches
IdentityOf(r) == Val(rq[r].data).identity
IfpaFetch(r) == rq[r].batch.ifpa
MatchPlayFetch(r) == rq[r].batch.matchplay

\* C18 (as claimed): name and location come from the IFPA data whenever that
\* fetch fulfilled, otherwise from the Match Play data when that fetch fulfilled,
\* and otherwise the name is 'Unknown Player' and the location is absent
C18_IdentityByFetchOutcome ==
  \A r \in Reqs :
    Assembled(r) =>
      IF IfpaFetch(r).status = "fulfilled"
      THEN /\ IdentityOf(r).name = FullName(Val(IfpaFetch(r).value).player)
           /\ IdentityOf(r).location = JoinedLocation(Val(IfpaFetch(r).value).player)
      ELSE IF MatchPlayFetch(r).status = "fulfilled"
           THEN /\ Some(IdentityOf(r).name) = Val(MatchPlayFetch(r).value).user.name
                /\ IdentityOf(r).location = Val(MatchPlayFetch(r).value).user.location
           ELSE /\ IdentityOf(r).name = "Unknown Player"
                /\ IdentityOf(r).location = None

\* C18: name and location come from the IFPA data whenever that fetch fulfilled,
\* whatever the Match Play fetch did; otherwise, when the Match Play fetch
\* fulfilled, the location is the Match Play user's and the name is the user's
\* name, or 'Unknown Player' for a user without one; and when neither fulfilled
\* the name is 'Unknown Player' and the location is absent
C18_IdentityPrefersIfpa ==
  \A r \in Reqs :
    Assembled(r) =>
      IF IfpaFetch(r).status = "fulfilled"
      THEN /\ IdentityOf(r).name = FullName(Val(IfpaFetch(r).value).player)
           /\ IdentityOf(r).location = JoinedLocation(Val(IfpaFetch(r).value).player)
      ELSE IF MatchPlayFetch(r).status = "fulfilled"
           THEN /\ IdentityOf(r).name =
                     (IF IsSome(Val(MatchPlayFetch(r).value).user.name)
                      THEN Val(Val(MatchPlayFetch(r).value).user.name)
                      ELSE "Unknown Player")
                /\ IdentityOf(r).location = Val(MatchPlayFetch(r).value).user.location
           ELSE /\ IdentityOf(r).name = "Unknown Player"
                /\ IdentityOf(r).location = None

\* both stats fetches fulfilled, with a named Match Play user, and the record
\* carries the IFPA name
C18_Witness ==
  \E r \in Reqs :
    /\ Assembled(r)
    /\ IfpaFetch(r).status = "fulfilled"
    /\ MatchPlayFetch(r).status = "fulfilled"
    /\ IsSome(Val(MatchPlayFetch(r).value).user.name)
    /\ IdentityOf(r).name = FullName(Val(IfpaFetch(r).value).player)
    /\ IdentityOf(r).name /= Val(Val(MatchPlayFetch(r).value).user.name)

----------------------------------------------------------------------------
(* src/unnamed/part_004 : HttpError, fetchWithTimeout, fetchJson *)

\* lines 230-232: the defaults of the options
DEFAULT_TIMEOUT == 10000
DEFAULT_RETRIES == 2
DEFAULT_RETRY_DELAY == 1000

\* Math.pow(2, attempt)
RECURSIVE Pow2(_)
Pow2(n) == IF n = 0 THEN 1 ELSE 2 * Pow2(n - 1)

\* lines 205-214: new HttpError(message, statusCode, response?)
HttpError(message, statusCode, response) ==
  [name |-> "HttpError", message |-> message, statusCode |-> statusCode,
   response |-> response]

\* an Error that is no HttpError: the TypeError of a failed fetch, the AbortError
\* of an aborted one, the SyntaxError of response.json()
OtherError(name, message) ==
  [name |-> name, message |-> message, statusCode |-> 0, response |-> None]

\* how one call of fetch(url, {signal}) ends: with a Response, whose body text
\* may be unreadable and may be no JSON, or by throwing
Responded(status, body, parses) ==
  [kind |-> "response", status |-> status, body |-> body, parses |-> parses, name |-> ""]
Threw(name) ==
  [kind |-> "error", status |-> 0, body |-> None, parses |-> FALSE, name |-> name]

\* response.ok
Ok(response) == response.status >= 200 /\ response.status <= 299

\* line 251
ClientError(response) == response.status >= 400 /\ response.status < 500

\* what fetch throws
FetchError(outcome) ==
  IF outcome.name = "AbortError"
  THEN OtherError("AbortError", "This operation was aborted")
  ELSE OtherError(outcome.name, "fetch failed")

\* lines 263-275, the catch of an attempt: the error is kept; after the last
\* attempt the loop is left, before it the back-off is awaited
Caught(f, error) ==
  IF f.attempt = f.retries
  THEN [f EXCEPT !.lastError = Some(error), !.pc = "failed"]
  ELSE [f EXCEPT !.lastError = Some(error), !.pc = "waiting",
                 !.waits = Append(@, DEFAULT_RETRY_DELAY * Pow2(f.attempt))]

\* a variant of Attempt that treats a 4xx response like a 5xx one
AttemptRetryingClientErrors(f, outcome) ==
  LET g == [f EXCEPT !.seen = Append(@, outcome)]
  IN IF outcome.kind = "error" THEN Caught(g, FetchError(outcome))
     ELSE IF ~Ok(outcome) /\ g.attempt < g.retries
          THEN Caught(g, HttpError("HTTP " \o ToString(outcome.status) \o ": ",
                                   outcome.status, None))
          ELSE [g EXCEPT !.response = Some(outcome), !.pc = "returned"]

\* lines 238-275, one turn of the loop once fetch has settled
Attempt(f, outcome) ==
  LET g == [f EXCEPT !.seen = Append(@, outcome)]
  IN IF outcome.kind = "error" THEN Caught(g, FetchError(outcome))
     ELSE IF ClientError(outcome)
          THEN [g EXCEPT !.response = Some(outcome), !.pc = "returned"]
          ELSE IF ~Ok(outcome) /\ g.attempt < g.retries
               THEN Caught(g, HttpError("HTTP " \o ToString(outcome.status) \o ": ",
                                        outcome.status, None))
               ELSE [g EXCEPT !.response = Some(outcome), !.pc = "returned"]

\* lines 278-282: what fetchWithTimeout throws once the loop is left
AfterLoop(lastError) ==
  IF IsSome(lastError) /\ Val(lastError).name = "AbortError"
  THEN HttpError("Request timeout after " \o ToString(DEFAULT_TIMEOUT) \o "ms", 408, None)
  ELSE IF IsSome(lastError) THEN Val(lastError)
       ELSE OtherError("Error", "Request failed")

\* a variant of fetchJsonCatch that rethrows whatever it caught
fetchJsonCatchAsIs(error) == error

\* fetchJson, lines 309-317: an HttpError is rethrown, anything else is wrapped
fetchJsonCatch(error) ==
  IF error.name = "HttpError" THEN error ELSE HttpError(error.message, 500, None)

\* the outcome of fetchJson: the parsed data, or the error thrown
Returns == [threw |-> FALSE, error |-> None]
Throws(error) == [threw |-> TRUE, error |-> Some(error)]

\* fetchJson, lines 299-308, given the Response fetchWithTimeout returned
fetchJsonBody(response) ==
  IF ~Ok(response)
  THEN LET errorText == IF IsSome(response.body) THEN Val(response.body)
                        ELSE "Unknown error"
       IN Throws(fetchJsonCatch(
            HttpError("HTTP " \o ToString(response.status) \o ": " \o errorText,
                      response.status, Some(errorText))))
  ELSE IF response.parses THEN Returns
       ELSE Throws(fetchJsonCatch(OtherError("SyntaxError", "Unexpected token")))

\* the statuses, body texts and failures of fetch the calls are run on
Statuses == {200, 404, 500}
Bodies == {None, Some("oops")}
FetchOutcomes ==
  {Responded(200, None, parses) : parses \in BOOLEAN}
  \cup {Responded(status, body, FALSE) : status \in Statuses \ {200}, body \in Bodies}
  \cup {Threw("TypeError"), Threw("AbortError")}
RetryChoices == {0, 1, DEFAULT_RETRIES}

InitFetch ==
  /\ now = 0 /\ cacheStore = <<>> /\ rateLimits = <<>>
  /\ rq = [r \in Reqs |-> IdleReq] /\ started = 0
  /\ upstream = None /\ inv = [r \in Runs |-> IdleRun] /\ walk = IdleWalk
  /\ UnitsIdle

\* fetchJson(url, {retries}) is called and fetchWithTimeout starts its first attempt
CallFetchJson(retries) ==
  /\ ft.pc = "idle"
  /\ ft' = [IdleFetch EXCEPT !.pc = "attempting", !.retries = retries]
  /\ UNCHANGED <<hvars, ovars, walk, call, admits>>

\* the fetch of the current attempt settles
FetchSettled(outcome) ==
  /\ ft.pc = "attempting"
  /\ ft' = Attempt(ft, outcome)
  /\ UNCHANGED <<hvars, ovars, walk, call, admits>>

\* the back-off timer fires and the loop takes its next turn
BackoffElapsed ==
  /\ ft.pc = "waiting"
  /\ ft' = [ft EXCEPT !.pc = "attempting", !.attempt = @ + 1]
  /\ UNCHANGED <<hvars, ovars, walk, call, admits>>

\* fetchWithTimeout has returned or thrown and fetchJson finishes
FetchJsonEnds ==
  /\ ft.pc \in {"returned", "failed"}
  /\ ft' = [ft EXCEPT !.pc = "done",
                      !.result = Some(IF ft.pc = "returned"
                                      THEN fetchJsonBody(Val(ft.response))
                                      ELSE Throws(fetchJsonCatch(AfterLoop(ft.lastError))))]
  /\ UNCHANGED <<hvars, ovars, walk, call, admits>>

NextFetch ==
  \/ \E retries \in RetryChoices : CallFetchJson(retries)
  \/ \E outcome \in FetchOutcomes : FetchSettled(outcome)
  \/ BackoffElapsed
  \/ FetchJsonEnds

SpecFetch == InitFetch /\ [][NextFetch]_vars

\* fetch settled in a way fetchWithTimeout retries: a server error, a network
\* error or a timeout
Retryable(outcome) == outcome.kind = "error" \/ outcome.status >= 500

\* fetchWithTimeout has ended, by returning or by throwing
Ended == ft.pc \in {"returned", "failed", "done"}

\* C19: fetchWithTimeout makes at most retries + 1 attempts, three by default; an
\* attempt answered 4xx is the last; an attempt that ends in a 5xx response, a
\* network error or a timeout is followed by another while attempts remain, after
\* a wait of retryDelay * 2^attempt; and nothing is waited for after the last
C19_BoundedRetries ==
  /\ Len(ft.seen) <= ft.retries + 1
  /\ ft.retries = DEFAULT_RETRIES => Len(ft.seen) <= 3
  /\ \A i \in 1..Len(ft.seen) :
       ClientError(ft.seen[i]) => (i = Len(ft.seen) /\ Ended)
  /\ \A i \in 1..Len(ft.seen) :
       (Retryable(ft.seen[i]) /\ i <= ft.retries) =>
         (i < Len(ft.seen) \/ ft.pc = "waiting" \/ (ft.pc = "attempting" /\ ft.attempt = i))
  /\ \A i \in 1..Len(ft.waits) : ft.waits[i] = DEFAULT_RETRY_DELAY * Pow2(i - 1)
  /\ Len(ft.waits) = IF Ended THEN Len(ft.seen) - 1 ELSE Len(ft.seen)
  /\ ft.pc = "waiting" => Len(ft.seen) <= ft.retries

\* a call with the default options was answered 500, timed out, was answered 500
\* again and ended there, having waited one and then two seconds
C19_Witness ==
  /\ ft.retries = DEFAULT_RETRIES
  /\ Ended
  /\ Len(ft.seen) = 3
  /\ ft.seen[1].status = 500 /\ ft.seen[2].name = "AbortError" /\ ft.seen[3].status = 500
  /\ ft.waits = <<1000, 2000>>

\* the response, or the error, the last attempt of the call ended with
LastSeen == ft.seen[Len(ft.seen)]

\* C20: fetchJson fails with an HttpError and nothing else; when the last attempt
\* was answered with a non-2xx response the error carries the status of that
\* response and the text of its body; when the last attempt timed out the error
\* carries status 408
C20_FailuresAreHttpErrors ==
  (ft.pc = "done" /\ Val(ft.result).threw) =>
    LET error == Val(Val(ft.result).error)
    IN /\ error.name = "HttpError"
       /\ (LastSeen.kind = "response" /\ ~Ok(LastSeen)) =>
            /\ error.statusCode = LastSeen.status
            /\ IsSome(LastSeen.body) => error.response = LastSeen.body
       /\ (LastSeen.kind = "error" /\ LastSeen.name = "AbortError") =>
            error.statusCode = 408

\* a call was answered 500 on its last attempt, after a network error, and failed
\* with an HttpError carrying 500 and the body of that response
C20_Witness ==
  /\ ft.pc = "done" /\ Val(ft.result).threw
  /\ Len(ft.seen) = 2 /\ ft.retries = 1
  /\ ft.seen[1].name = "TypeError"
  /\ LastSeen.status = 500 /\ LastSeen.body = Some("oops")
  /\ Val(Val(ft.result).error).name = "HttpError"
  /\ Val(Val(ft.result).error).statusCode = 500
  /\ Val(Val(ft.result).error).response = Some("oops")

----------------------------------------------------------------------------
(* Two requests to any of the three GET handlers, the second arriving once  *)
(* the first has been answered                                              *)

\* the ids the two requests ask for
RefreshRaw == {Some(<<"1">>)}

InitRefresh ==
  /\ now = 0 /\ cacheStore = <<>> /\ rateLimits = <<>>
  /\ rq = [r \in FlowReqs |-> IdleReq] /\ started = 0
  /\ upstream = None /\ inv = [r \in Runs |-> IdleRun] /\ walk = IdleWalk
  /\ UnitsIdle

NextRefresh ==
  \/ \E r \in FlowReqs, raw \in RefreshRaw, refresh \in BOOLEAN, ip \in ClientIps :
       /\ \A q \in FlowReqs : q < r => rq[q].pc = "done"
       /\ ReceiveCombined(r, raw, None, refresh, ip)
  \/ \E r \in FlowReqs, outcome \in FlowProfiles : ResolvedCombined(r, outcome)
  \/ \E r \in FlowReqs :
       \E ifpaData \in FlowOutcomes(IfpaOutcomes(rq[r].ifpaId), TRUE),
          matchPlayData \in FlowOutcomes(MatchPlayOutcomes(rq[r].matchPlayId), TRUE),
          opponentsData \in FlowOutcomes(OpponentOutcomes(rq[r].matchPlayId), FALSE) :
         SettledCombined(r, ifpaData, matchPlayData, opponentsData)
  \/ \E r \in FlowReqs, route \in {"ifpa", "matchplay"}, raw \in RefreshRaw,
        refresh \in BOOLEAN, ip \in ClientIps :
       /\ \A q \in FlowReqs : q < r => rq[q].pc = "done"
       /\ ReceiveSimple(r, route, raw, refresh, ip)
  \/ \E r \in FlowReqs :
       \E outcome \in IF rq[r].route = "ifpa" THEN IfpaOutcomes(Some(Num(1)))
                      ELSE MatchPlayOutcomes(Some(Num(1))) :
         SettledSimple(r, outcome)
  \/ \E d \in {1, FIFTEEN_MINUTES} : Tick(d)

SpecRefresh == InitRefresh /\ [][NextRefresh]_vars

\* request r, asking for refresh, has been admitted: validated and not limited
AdmittedRefresh(r) ==
  /\ rq[r].pc = "idle" /\ rq'[r].pc /= "idle"
  /\ rq'[r].refresh
  /\ ~(rq'[r].pc = "done" /\ rq'[r].status \in {400, 429})

\* request r, asking for refresh, has just been answered with fetched data
RefreshSucceeded(r) ==
  /\ rq[r].pc = "fetching" /\ rq'[r].pc = "done"
  /\ rq'[r].refresh /\ rq'[r].status = 200

\* C21: a request with refresh=true to the combined, ifpa or matchplay handler is
\* never answered from the cache, whatever the cache holds under its key: it does
\* not read the cache, it fetches, and when it succeeds it replaces the entry of
\* its key with the record it fetched, stamped with the time of the store
C21_RefreshBypassesCache ==
  [][ \A r \in FlowReqs :
        /\ rq'[r].refresh => (~rq'[r].cached /\ rq'[r].cacheReads = 0)
        /\ (AdmittedRefresh(r) /\ rq'[r].route /= "combined") =>
             (rq'[r].pc = "fetching" /\ rq'[r].calls.stats = 1)
        /\ (rq[r].pc = "resolving" /\ rq'[r].pc /= "resolving" /\ rq'[r].refresh) =>
             (rq'[r].pc = "fetching" /\ rq'[r].calls.stats >= 1)
        /\ RefreshSucceeded(r) =>
             /\ ~rq'[r].cached
             /\ cacheStore'[rq'[r].key] =
                  [data |-> Val(rq'[r].data), timestamp |-> now, ttl |-> FIFTEEN_MINUTES] ]_vars

\* a request stored a record, and a later request for the same key, asking for
\* refresh while that record was fresh, fetched and stored its own in its place
C21_Witness ==
  \E r \in FlowReqs, q \in FlowReqs :
    /\ q /= r
    /\ rq[q].pc = "done" /\ rq[q].cacheWrites = 1 /\ ~rq[q].refresh
    /\ rq[r].pc = "done" /\ rq[r].refresh /\ rq[r].status = 200 /\ ~rq[r].cached
    /\ rq[r].key = rq[q].key
    /\ rq[r].data /= rq[q].data
    /\ cacheStore[rq[r].key].data = Val(rq[r].data)
    /\ cacheStore[rq[r].key].timestamp = 1
    /\ now = 1

----------------------------------------------------------------------------
(* src/unnamed/part_004 : getOpenStats *)

\* a value of the upstream stats block: null, undefined or a string
JsNull == [kind |-> "null", text |-> <<>>]
JsUndefined == [kind |-> "undefined", text |-> <<>>]
JsText(t) == [kind |-> "text", text |-> t]

\* a value of the normalised block: a number, or the upstream string itself
AsNumber(x) == [isNumber |-> TRUE, num |-> x, text |-> <<>>]
AsGiven(t) == [isNumber |-> FALSE, num |-> NaNv, text |-> t]

\* line 56: value === '' || value === null || value === undefined
Skipped(value) == value.kind /= "text" \/ value.text = <<>>

\* lines 57-58: Number(value), kept unless it is NaN, and then the value itself
ParsedField(value) ==
  LET num == Number(Some(value.text))
  IN IF isNaN(num) THEN AsGiven(value.text) ELSE AsNumber(num)

\* lines 54-60: the loop over Object.entries(raw)
ParsedStats(raw) ==
  [key \in { k \in DOMAIN raw : ~Skipped(raw[k]) } |-> ParsedField(raw[key])]

\* lines 49-51: system['open'] ?? system['OPEN'] ?? system['MAIN'] ?? null
OpenBlock(system) ==
  IF "open" \in DOMAIN system THEN Some(system["open"])
  ELSE IF "OPEN" \in DOMAIN system THEN Some(system["OPEN"])
  ELSE IF "MAIN" \in DOMAIN system THEN Some(system["MAIN"])
  ELSE None

\* lines 45-61; player.player_stats?.system is absent or a record of blocks
getOpenStats(system) ==
  IF IsNone(system) THEN None
  ELSE IF IsNone(OpenBlock(Val(system))) THEN None
       ELSE Some(ParsedStats(Val(OpenBlock(Val(system)))))

\* the stats blocks getOpenStats is run on
StatKeys == {"current_rank", "current_points"}
StatValues ==
  {JsNull, JsUndefined, JsText(<<>>), JsText(<<"1", "2">>), JsText(<<"0">>),
   JsText(<<"-", "3">>), JsText(<<" ">>), JsText(<<"N", "R">>)}
SystemNames == {"open", "MAIN", "women"}
Systems ==
  {None} \cup { Some([name \in {n} |-> raw]) : n \in SystemNames, raw \in [StatKeys -> StatValues] }

IdleStats(system) == [method |-> "", system |-> system, returned |-> None]

InitStats ==
  /\ now = 0 /\ cacheStore = <<>> /\ rateLimits = <<>>
  /\ rq = [r \in Reqs |-> IdleReq] /\ started = 0
  /\ upstream = None /\ inv = [r \in Runs |-> IdleRun] /\ walk = IdleWalk
  /\ admits = <<>> /\ ft = IdleFetch
  /\ call \in { IdleStats(system) : system \in Systems }

\* getOpenStats(player) is called and returns
CallGetOpenStats ==
  /\ call.method = ""
  /\ call' = [call EXCEPT !.method = "getOpenStats",
                          !.returned = Some(getOpenStats(call.system))]
  /\ UNCHANGED <<hvars, ovars, walk, admits, ft>>

NextStats == CallGetOpenStats

SpecStats == InitStats /\ [][NextStats]_vars

\* the upstream value is the text of a number
NumericText(value) ==
  /\ value.kind = "text"
  /\ SkipWs(value.text) /= <<>>
  /\ ~isNaN(Number(Some(value.text)))

\* C22 (as claimed): in the block getOpenStats returns, every field whose upstream
\* value is numeric text is that number, and every field whose upstream value is
\* empty, null or no number is absent
C22_UnparseableIsAbsent ==
  (call.method = "getOpenStats" /\ IsSome(Val(call.returned))) =>
    LET raw == Val(OpenBlock(Val(call.system)))
        parsed == Val(Val(call.returned))
    IN \A key \in DOMAIN raw :
         IF NumericText(raw[key])
         THEN /\ key \in DOMAIN parsed
              /\ parsed[key] = AsNumber(Number(Some(raw[key].text)))
         ELSE key \notin DOMAIN parsed

----------------------------------------------------------------------------
(* Properties of whole invocations: which events count, and how *)

\* the entries of the tournament list an invocation examines, in list order
ExaminedList(r) ==
  Slice(OrEmpty(Val(Val(upstream).list.value).data), inv[r].maxTournaments)

\* the answers of the API for the k-th examined tournament
AnswerFor(r, k) == Val(upstream).events[ExaminedList(r)[k].tournamentId]

\* both fetches of the tournament succeed and its roster has an entry claimed
\* by the subject
EventCounts(answer) ==
  /\ answer.detail.status = "fulfilled"
  /\ answer.games.status = "fulfilled"
  /\ \E p \in 1..Len(OrEmpty(Val(answer.detail.value).players)) :
       OrEmpty(Val(answer.detail.value).players)[p].claimedBy = Some(UserId)

\* the examined tournaments that count, in list order, as they settle
CountingEvents(r) ==
  LET Counts(k) == EventCounts(AnswerFor(r, k))
      ks == SelectSeq([k \in 1..Len(ExaminedList(r)) |-> k], Counts)
  IN [i \in 1..Len(ks) |-> TourneyOutcome(ExaminedList(r)[ks[i]], AnswerFor(r, ks[i]))]

\* C23: an invocation whose tournament list was answered returns, without
\* raising, whatever its tournaments did; a tournament settles fulfilled exactly if
\* both its fetches succeeded; and the list returned is the one the tournaments
\* with both fetches answered and the subject on the roster give by themselves,
\* as if the others were not in the list
C23_OnlyCountingEventsContribute ==
  \A r \in Runs :
    (Finished(r) /\ Val(upstream).list.status = "fulfilled") =>
      /\ inv[r].pc = "done"
      /\ \A k \in 1..Len(inv[r].slots) :
           inv[r].slots[k].status = "fulfilled" <=>
             (AnswerFor(r, k).detail.status = "fulfilled"
                /\ AnswerFor(r, k).games.status = "fulfilled")
      /\ inv[r].result = Some(Finish(AccumulateAll(<<>>, UserId, CountingEvents(r), 1)))

\* two tournaments examined: the games of one could not be fetched or its roster
\* lacks the subject, the other counts, and the list returned is not empty
C23_Witness ==
  \E r \in Runs :
    /\ inv[r].pc = "done"
    /\ Len(inv[r].slots) = 2
    /\ inv[r].slots[1].status = "rejected"
    /\ EventCounts(AnswerFor(r, 2))
    /\ Len(CountingEvents(r)) = 1
    /\ Len(Returned(r)) > 0

\* one game of a counting tournament, as the games loop sees it
Sitting(event, g) ==
  LET t == Val(event.value)
  IN [game |-> Some(t.games[g]), players |-> t.players, startUtc |-> t.startUtc,
      ourPlayerId |-> t.players[FindClaimed(t.players, UserId, 1)].playerId]

\* the games of the counting tournaments of an invocation
Sittings(r) ==
  { Sitting(CountingEvents(r)[k], g) :
      <<k, g>> \in UNION { {k} \X (1..Len(Val(CountingEvents(r)[k].value).games)) :
                             k \in 1..Len(CountingEvents(r)) } }

\* the pairs <<k, g>> of a counting tournament and one of its games that counts
CountedGames(r) ==
  { kg \in UNION { {k} \X (1..Len(Val(CountingEvents(r)[k].value).games)) :
                     k \in 1..Len(CountingEvents(r)) } :
      Contributes(Sitting(CountingEvents(r)[kg[1]], kg[2])) }

\* the names the subject met somebody under
NamesMet(r) ==
  { OpponentName(w.players, Val(w.game).playerIds[i]) :
      <<w, i>> \in UNION { {w} \X Seats(Val(w.game)) :
                             w \in { v \in Sittings(r) : Contributes(v) } } }

\* the wins and the losses against a name, summed over the counted games: the
\* number of seats, over all those games, the subject finished ahead of or behind
WinsAgainst(r, name) ==
  Cardinality(UNION { {kg} \X BeatenBySubject(Sitting(CountingEvents(r)[kg[1]], kg[2]), name) :
                        kg \in CountedGames(r) })
LossesAgainst(r, name) ==
  Cardinality(UNION { {kg} \X AheadOfSubject(Sitting(CountingEvents(r)[kg[1]], kg[2]), name) :
                        kg \in CountedGames(r) })

\* C24: opponents are keyed by display name: the map of a returned invocation
\* holds one record for every name the subject met an opponent with a position
\* under, and no other; the wins and the losses of the record are the sums of
\* the wins and losses against that name over all counted games of all counting
\* tournaments, whichever roster entries bore the name
C24_OneRecordPerName ==
  \A r \in Runs :
    (inv[r].pc = "done" /\ Val(upstream).list.status = "fulfilled") =>
      /\ \A i, j \in 1..Len(inv[r].map) :
           inv[r].map[i].name = inv[r].map[j].name => i = j
      /\ \A i \in 1..Len(inv[r].map) :
           /\ inv[r].map[i].wins = WinsAgainst(r, inv[r].map[i].name)
           /\ inv[r].map[i].losses = LossesAgainst(r, inv[r].map[i].name)
      /\ \A name \in NamesMet(r) :
           (WinsAgainst(r, name) + LossesAgainst(r, name) > 0) =>
             \E i \in 1..Len(inv[r].map) : inv[r].map[i].name = name
      /\ \A k \in 1..Len(Returned(r)) :
           /\ Returned(r)[k].wins = WinsAgainst(r, Returned(r)[k].name)
           /\ Returned(r)[k].losses = LossesAgainst(r, Returned(r)[k].name)

\* two tournaments count; in one of them two roster entries are named Ann, in the
\* other a third entry is; all of it is in the one record of Ann
C24_Witness ==
  \E r \in Runs :
    /\ inv[r].pc = "done"
    /\ Len(CountingEvents(r)) = 2
    /\ Val(CountingEvents(r)[1].value).players = SubjectFirst
    /\ Val(CountingEvents(r)[2].value).players = SubjectSecond
    /\ WinsAgainst(r, "Ann") >= 1
    /\ LossesAgainst(r, "Ann") >= 2
    /\ Cardinality({ i \in 1..Len(inv[r].map) : inv[r].map[i].name = "Ann" }) = 1
    /\ Tally(inv[r].map, "Ann") =
         [wins |-> WinsAgainst(r, "Ann"), losses |-> LossesAgainst(r, "Ann")]

\* the tournament list as the API returned it
Listed == OrEmpty(Val(Val(upstream).list.value).data)

\* how many tournaments of the list an invocation may examine
Examinable(r) ==
  IF Len(Listed) < inv[r].maxTournaments THEN Len(Listed) ELSE inv[r].maxTournaments

\* the first tournaments of the list, as many as may be examined, as they settle
LeadingEvents(r) ==
  [k \in 1..Examinable(r) |-> TourneyOutcome(Listed[k], Val(upstream).events[Listed[k].tournamentId])]

\* C25: an invocation examines the first maxTournaments entries of the tournament
\* list, five by default, in the order of the list, and no other: it fetches the
\* roster and the games of at most maxTournaments tournaments, makes at most
\* 1 + 2 * maxTournaments calls, and returns what those first tournaments give
\* by themselves, whatever the later ones hold
C25_OnlyTheFirstEvents ==
  \A r \in Runs :
    inv[r].pc /= "idle" =>
      /\ inv[r].calls.roster <= inv[r].maxTournaments
      /\ inv[r].calls.games <= inv[r].maxTournaments
      /\ inv[r].calls.list + inv[r].calls.roster + inv[r].calls.games
           <= 1 + 2 * inv[r].maxTournaments
      /\ inv[r].pc = "fetching" =>
           /\ Len(inv[r].recent) = Examinable(r)
           /\ \A k \in 1..Len(inv[r].recent) : inv[r].recent[k] = Listed[k]
      /\ (inv[r].pc = "done" /\ Val(upstream).list.status = "fulfilled") =>
           inv[r].result = Some(Finish(AccumulateAll(<<>>, UserId, LeadingEvents(r), 1)))

\* of a list of six tournaments an invocation with the limit 1 examined the
\* first and returned its one opponent
C25_Witness ==
  \E r \in Runs :
    /\ inv[r].pc = "done"
    /\ inv[r].maxTournaments = 1
    /\ Len(Listed) = DEFAULT_MAX_TOURNAMENTS + 1
    /\ inv[r].calls = [list |-> 1, roster |-> 1, games |-> 1]
    /\ ReturnedNames(r) = {"L1"}

\* of a list of six tournaments an invocation with the default limit fetches five
C25_WitnessDefault ==
  \E r \in Runs :
    /\ inv[r].pc = "fetching"
    /\ inv[r].maxTournaments = DEFAULT_MAX_TOURNAMENTS
    /\ Len(Listed) = DEFAULT_MAX_TOURNAMENTS + 1
    /\ inv[r].calls = [list |-> 1, roster |-> 5, games |-> 5]

\* the time of a game: its own start if it has one, else the start of its tournament
PlayedAt(w) == IF Val(w.game).startedAt /= 0 THEN Val(w.game).startedAt ELSE w.startUtc

\* the times of the counted games in which somebody of the name has a position,
\* however the subject fared against them
TimesMet(r, name) ==
  { PlayedAt(w) : w \in { v \in Sittings(r) : Contributes(v) /\ Opponents(v, name) /= {} } }

\* C26: the lastPlayed of every opponent, in the map and in the list returned, is
\* the greatest of the times of the counted games against that opponent, level
\* finishes included, the time of a game being its own start when it has one and
\* the start of its tournament otherwise; being a greatest element it does not
\* depend on the order the games were walked in
C26_LastPlayedIsLatest ==
  \A r \in Runs :
    (inv[r].pc = "done" /\ Val(upstream).list.status = "fulfilled") =>
      /\ \A i \in 1..Len(inv[r].map) :
           LET times == TimesMet(r, inv[r].map[i].name)
           IN /\ times /= {}
              /\ inv[r].map[i].lastPlayed \in times
              /\ \A t \in times : t <= inv[r].map[i].lastPlayed
      /\ \A k \in 1..Len(Returned(r)) :
           /\ Returned(r)[k].lastPlayed \in TimesMet(r, Returned(r)[k].name)
           /\ \A t \in TimesMet(r, Returned(r)[k].name) : t <= Returned(r)[k].lastPlayed

\* an opponent met in two counted games, level in both, neither game with a start
\* of its own: lastPlayed is the start of a tournament
C26_Witness ==
  \E r \in Runs :
    /\ inv[r].pc = "done"
    /\ \E k \in 1..Len(Returned(r)) :
         /\ Returned(r)[k].totalGames = 0
         /\ Returned(r)[k].lastPlayed = 1
         /\ Cardinality({ w \in Sittings(r) :
                            Contributes(w) /\ Opponents(w, Returned(r)[k].name) /= {} }) >= 2

----------------------------------------------------------------------------
(* Two requests to the combined GET handler at once: the handlers take turns  *)
(* at their awaits                                                            *)

ConcurrentRaw == { <<Some(<<"1">>), None>>, <<None, Some(<<"1">>)>> }

InitConcurrent ==
  /\ now = 0 /\ cacheStore = <<>> /\ rateLimits = <<>>
  /\ rq = [r \in FlowReqs |-> IdleReq] /\ started = 0
  /\ upstream = None /\ inv = [r \in Runs |-> IdleRun] /\ walk = IdleWalk
  /\ UnitsIdle

NextConcurrent ==
  \/ \E r \in FlowReqs, raw \in ConcurrentRaw, refresh \in BOOLEAN, ip \in ClientIps :
       ReceiveCombined(r, raw[1], raw[2], refresh, ip)
  \/ \E r \in FlowReqs, outcome \in FlowProfiles : ResolvedCombined(r, outcome)
  \/ \E r \in FlowReqs :
       \E ifpaData \in FlowOutcomes(IfpaOutcomes(rq[r].ifpaId), TRUE),
          matchPlayData \in FlowOutcomes(MatchPlayOutcomes(rq[r].matchPlayId), TRUE),
          opponentsData \in FlowOutcomes(OpponentOutcomes(rq[r].matchPlayId), FALSE) :
         SettledCombined(r, ifpaData, matchPlayData, opponentsData)
  \/ \E d \in {1} : Tick(d)

SpecConcurrent == InitConcurrent /\ [][NextConcurrent]_vars

\* the record request r assembled from its own batch, for its own pair of ids
OwnRecord(r, t) ==
  DashboardData(JoinBatch(rq[r].batch).slots, rq[r].ifpaId, rq[r].matchPlayId,
                rq[r].idMismatchWarning, t)

\* request r stored the entry the cache holds under the key
StoredBy(r, key) ==
  /\ rq[r].pc = "done" /\ rq[r].cacheWrites = 1
  /\ rq[r].key = key
  /\ CombinedCacheKey(rq[r].ifpaId, rq[r].matchPlayId) = key
  /\ rq[r].data = Some(cacheStore[key].data)
  /\ cacheStore[key].data = OwnRecord(r, cacheStore[key].timestamp)

\* C27: however concurrent combined requests take turns, the value the cache holds
\* under a key is, whole, the record one request assembled from its own fetches
\* for a pair of ids that maps to the key; a request that missed has fetched for
\* itself; and a request that stores replaces whatever the key held
C27_EntriesAreWholeRecords ==
  [][ /\ \A key \in DOMAIN cacheStore' : \E r \in FlowReqs : StoredBy(r, key)'
      /\ \A r \in FlowReqs :
           (rq[r].pc = "fetching" /\ rq'[r].pc = "done" /\ rq'[r].status = 200) =>
             /\ rq[r].calls.stats >= 1
             /\ cacheStore'[rq[r].key] =
                  [data |-> Val(rq'[r].data), timestamp |-> now, ttl |-> FIFTEEN_MINUTES] ]_vars

\* two requests for one key both missed, both fetched, both stored, with
\* different records: the cache holds the record of one of them
C27_Witness ==
  \E r \in FlowReqs, q \in FlowReqs :
    /\ r /= q
    /\ rq[r].pc = "done" /\ rq[q].pc = "done"
    /\ ~rq[r].refresh /\ ~rq[q].refresh
    /\ rq[r].cacheReads = 1 /\ rq[q].cacheReads = 1
    /\ rq[r].cacheWrites = 1 /\ rq[q].cacheWrites = 1
    /\ rq[r].key = rq[q].key
    /\ rq[r].data /= rq[q].data
    /\ cacheStore[rq[r].key].data = Val(rq[r].data)

----------------------------------------------------------------------------
(* src/lib/cache.ts : isRateLimited, with the rejected calls of each key counted *)

MaxRejected == 2

RejectedOf(key) == IF "rejected" \in DOMAIN call THEN call.rejected[key] ELSE 0

InitWindow ==
  /\ now = 0 /\ cacheStore = <<>> /\ rateLimits = <<>>
  /\ rq = [r \in Reqs |-> IdleReq] /\ started = 0
  /\ upstream = None /\ inv = [r \in Runs |-> IdleRun] /\ walk = IdleWalk
  /\ UnitsIdle

\* cache.isRateLimited(key, RATE_LIMIT.MAX_REQUESTS, RATE_LIMIT.WINDOW_MS)
LimitCounted(key) ==
  LET rl == IsRateLimited(rateLimits, key, MAX_REQUESTS, WINDOW_MS, now)
  IN /\ rl.limited => RejectedOf(key) < MaxRejected
     /\ rateLimits' = rl.limits
     /\ call' = [method |-> "isRateLimited", key |-> key, returned |-> Some(rl.limited),
                 rejected |-> [k \in LimiterKeys |->
                                 IF k = key /\ rl.limited THEN RejectedOf(k) + 1
                                 ELSE RejectedOf(k)]]
     /\ UNCHANGED <<now, cacheStore, rq, started, ovars, walk, admits, ft>>

NextWindow ==
  \/ \E key \in LimiterKeys : LimitCounted(key)
  \/ \E d \in {1, WINDOW_MS} : Elapse(d)

SpecWindow == InitWindow /\ [][NextWindow]_vars

\* C28: a call that isRateLimited rejects leaves the key's window as it was, count
\* and reset time both; a call made at a time later than the window's reset time
\* is admitted and opens a window of count 1 ending windowMs later, whatever the
\* count was and however many calls were rejected before
C28_RejectionsCostNothing ==
  [][ \A key \in LimiterKeys :
        LimitCounted(key) =>
          /\ call'.returned = Some(TRUE) => rateLimits' = rateLimits
          /\ (Has(rateLimits, key) /\ now > rateLimits[key].resetTime) =>
               /\ call'.returned = Some(FALSE)
               /\ rateLimits'[key] = [count |-> 1, resetTime |-> now + WINDOW_MS] ]_vars

\* a key that used up its window and was then rejected MaxRejected times is
\* admitted by its first call after the window's end, into a window of count 1
C28_Witness ==
  /\ call /= NoCall
  /\ call.returned = Some(FALSE)
  /\ call.rejected[call.key] = MaxRejected
  /\ now > WINDOW_MS
  /\ rateLimits[call.key] = [count |-> 1, resetTime |-> now + WINDOW_MS]

----------------------------------------------------------------------------
(* Degraded records in the cache of the combined GET handler *)

\* a record with a provider block missing or with recentOpponentsError set
Degraded(dashboardData) ==
  \/ dashboardData.ifpa = None
  \/ dashboardData.matchplay = None
  \/ dashboardData.recentOpponentsError /= None

\* how many fetches of a settled batch were rejected
FailedFetches(batch) ==
  Cardinality({ slot \in DOMAIN batch : batch[slot].status = "rejected" })

\* C29: the combined handler stores the record it assembled for FIFTEEN_MINUTES
\* however many of its three fetches were rejected, and a request without refresh
\* that resolves to a key whose entry is no older than that is answered with the
\* entry's record, degraded or not, and fetches no stats and no opponents
C29_DegradedRecordsAreCached ==
  [][ \A r \in FlowReqs :
        /\ (rq[r].pc = "fetching" /\ rq'[r].pc = "done") =>
             /\ rq'[r].status = 200
             /\ Has(cacheStore', rq[r].key)
             /\ cacheStore'[rq[r].key] =
                  [data |-> Val(rq'[r].data), timestamp |-> now, ttl |-> FIFTEEN_MINUTES]
        /\ ( /\ rq[r].pc = "resolving" /\ rq'[r].pc /= "resolving"
             /\ ~rq[r].refresh
             /\ Has(cacheStore, rq'[r].key)
             /\ now - cacheStore[rq'[r].key].timestamp <= FIFTEEN_MINUTES ) =>
             /\ rq'[r].pc = "done" /\ rq'[r].status = 200 /\ rq'[r].cached
             /\ rq'[r].data = Some(cacheStore[rq'[r].key].data)
             /\ rq'[r].calls.stats = 0 /\ rq'[r].calls.opponents = 0 ]_vars

\* one request stored a record after one fetch failed, recentOpponentsError set; a
\* later request without refresh has been answered with that record from the cache
C29_Witness ==
  \E r \in FlowReqs, q \in FlowReqs :
    /\ rq[r].pc = "done" /\ rq[r].cacheWrites = 1
    /\ FailedFetches(rq[r].batch) >= 1
    /\ Val(rq[r].data).recentOpponentsError /= None
    /\ rq[q].pc = "done" /\ rq[q].cached /\ ~rq[q].refresh
    /\ rq[q].data = rq[r].data
    /\ rq[q].calls.stats = 0 /\ rq[q].calls.opponents = 0
    /\ now > Val(rq[r].data).lastUpdated

\* a record whose two provider blocks are both missing has been stored and then
\* served from the cache
C29_WitnessNoBlocks ==
  \E r \in FlowReqs, q \in FlowReqs :
    /\ rq[r].pc = "done" /\ rq[r].cacheWrites = 1
    /\ FailedFetches(rq[r].batch) = 3
    /\ Val(rq[r].data).ifpa = None /\ Val(rq[r].data).matchplay = None
    /\ rq[q].pc = "done" /\ rq[q].cached
    /\ rq[q].data = rq[r].data

----------------------------------------------------------------------------
(* The order of identity resolution, cache lookup and fetches in the combined *)
(* GET handler                                                                *)

\* the fetches of the batch request r has issued
BatchCalls(r) == rq[r].calls.stats + rq[r].calls.opponents

\* C30: in the combined handler identity resolution comes before the cache lookup
\* and the batch after it.  While resolvePlayerIds is awaited the cache has not
\* been read and no fetch of the batch is out; a request answered from the cache
\* has read the cache once under the key of its resolved ids, has issued no fetch
\* of the batch and at most one profile fetch; a request without refresh that has
\* issued the batch has first read the cache.
C30_ResolveLookupFetch ==
  \A r \in FlowReqs :
    /\ rq[r].calls.profile <= 1
    /\ rq[r].pc = "resolving" => (rq[r].cacheReads = 0 /\ BatchCalls(r) = 0)
    /\ rq[r].cached =>
         /\ ~rq[r].refresh
         /\ rq[r].cacheReads = 1
         /\ rq[r].key = CombinedCacheKey(rq[r].ifpaId, rq[r].matchPlayId)
         /\ BatchCalls(r) = 0
    /\ (BatchCalls(r) > 0 /\ ~rq[r].refresh) => (rq[r].cacheReads = 1 /\ ~rq[r].cached)
    /\ rq[r].cacheReads = 1 =>
         rq[r].key = CombinedCacheKey(rq[r].ifpaId, rq[r].matchPlayId)

\* a request given only a Match Play id resolved the linked IFPA id with its one
\* profile fetch and was then answered from the cache under the resolved pair,
\* with no fetch of the batch issued
C30_Witness ==
  \E r \in FlowReqs :
    /\ rq[r].pc = "done" /\ rq[r].cached
    /\ rq[r].rawA = None /\ IsSome(rq[r].ifpaId)
    /\ rq[r].calls.profile = 1
    /\ rq[r].cacheReads = 1
    /\ BatchCalls(r) = 0

\* a request without refresh missed and has its batch out, the cache read once
C30_WitnessMiss ==
  \E r \in FlowReqs :
    /\ rq[r].pc = "fetching" /\ ~rq[r].refresh
    /\ rq[r].cacheReads = 1
    /\ BatchCalls(r) = 3

====
